---- MODULE Spec2Model ----
(***************************************************************************)
(* Model of the project-session and modification-lifecycle engine of       *)
(* gemini-coder (src/src/server.py; the older variant is src/src/client.py)*)
(*                                                                         *)
(* A text (path, file content, chat message) is a sequence of one-character*)
(* strings, so that prefix tests, splitting and stripping are computed the *)
(* way the Python string methods compute them.  Fixed message literals are *)
(* single multi-character elements of such a sequence.                     *)
(***************************************************************************)
EXTENDS Naturals, Sequences, FiniteSets, TLC

VARIABLES
    files,      \* the filesystem's regular files: absolute path -> content
    dirs,       \* the filesystem's directories: set of absolute paths
    sidecar,    \* the text of the .llm_session file of each directory that
                \* has one
    session,    \* the Flask session of each client: project_root,
                \* conversation_history, pending_modifications
    req         \* per request slot: the request in flight (its position in
                \* the handler) or the response of the last one

vars == <<files, dirs, sidecar, session, req>>

(***************************************************************************)
(* Bounds of the model.                                                    *)
(***************************************************************************)
\* a client sends no chat message once its history holds this many entries
MaxHistory == 2
\* the same, for the clients of SpecPersist
MaxPersistHistory == 4
\* path segments of a relative path given to _get_safe_path in SpecResolve
MaxSegments == 3
\* pieces (fence, letter, newline, blank) of a backend text in SpecSanitize
MaxTextLen == 4
\* a client of SpecWindow sends no chat message once its history holds this
\* many entries
MaxWindowHistory == 24
\* backend calls of one generate_content invocation the model follows
MaxCalls == 5

(***************************************************************************)
(* Strings.                                                                *)
(***************************************************************************)
EmptyStr == <<>>

\* str.startswith
StartsWith(s, pre) ==
    /\ Len(pre) <= Len(s)
    /\ SubSeq(s, 1, Len(pre)) = pre

\* str.endswith
EndsWith(s, suf) ==
    /\ Len(suf) <= Len(s)
    /\ SubSeq(s, Len(s) - Len(suf) + 1, Len(s)) = suf

\* str.split(sep) for a one-character separator: the list of pieces
RECURSIVE SplitFrom(_, _, _, _)
SplitFrom(s, sep, i, cur) ==
    IF i > Len(s) THEN <<cur>>
    ELSE IF s[i] = sep THEN <<cur>> \o SplitFrom(s, sep, i + 1, <<>>)
    ELSE SplitFrom(s, sep, i + 1, Append(cur, s[i]))

Split(s, sep) == SplitFrom(s, sep, 1, <<>>)

\* sep.join(pieces)
RECURSIVE JoinWith(_, _)
JoinWith(pieces, sep) ==
    IF Len(pieces) = 0 THEN <<>>
    ELSE IF Len(pieces) = 1 THEN pieces[1]
    ELSE pieces[1] \o <<sep>> \o JoinWith(Tail(pieces), sep)

IsSpace(c) == c \in {" ", "\n", "\t", "\r"}

\* str.strip(): leading and trailing whitespace removed
RECURSIVE LStrip(_)
LStrip(s) == IF Len(s) > 0 /\ IsSpace(s[1]) THEN LStrip(Tail(s)) ELSE s

RECURSIVE RStrip(_)
RStrip(s) ==
    IF Len(s) > 0 /\ IsSpace(s[Len(s)]) THEN RStrip(SubSeq(s, 1, Len(s) - 1))
    ELSE s

Strip(s) == RStrip(LStrip(s))

(***************************************************************************)
(* Paths (posixpath).                                                      *)
(***************************************************************************)
\* os.path.isabs
IsAbs(p) == Len(p) > 0 /\ p[1] = "/"

\* os.path.join(a, b)
PathJoin(a, b) ==
    IF IsAbs(b) THEN b
    ELSE IF Len(a) = 0 \/ a[Len(a)] = "/" THEN a \o b
    ELSE a \o <<"/">> \o b

\* the component loop of posixpath.normpath
RECURSIVE NormComps(_, _, _)
NormComps(comps, acc, rooted) ==
    IF Len(comps) = 0 THEN acc
    ELSE LET c == Head(comps)
             rest == Tail(comps)
         IN IF c = <<>> \/ c = <<".">> THEN NormComps(rest, acc, rooted)
            ELSE IF \/ c # <<".", ".">>
                    \/ (~rooted /\ Len(acc) = 0)
                    \/ (Len(acc) > 0 /\ acc[Len(acc)] = <<".", ".">>)
                 THEN NormComps(rest, Append(acc, c), rooted)
            ELSE IF Len(acc) > 0
                 THEN NormComps(rest, SubSeq(acc, 1, Len(acc) - 1), rooted)
            ELSE NormComps(rest, acc, rooted)

\* posixpath.normpath
NormPath(p) ==
    IF Len(p) = 0 THEN <<".">>
    ELSE LET rooted == IsAbs(p)
             slashes == IF rooted /\ StartsWith(p, <<"/", "/">>)
                                  /\ ~StartsWith(p, <<"/", "/", "/">>)
                        THEN <<"/", "/">>
                        ELSE IF rooted THEN <<"/">> ELSE <<>>
             body == JoinWith(NormComps(Split(p, "/"), <<>>, rooted), "/")
             out == slashes \o body
         IN IF Len(out) = 0 THEN <<".">> ELSE out

\* the server's working directory, used by abspath for a relative argument
Cwd == <<"/">>

\* os.path.abspath
AbsPath(p) == NormPath(IF IsAbs(p) THEN p ELSE PathJoin(Cwd, p))

\* os.path.dirname
RECURSIVE LastSlash(_, _)
LastSlash(p, i) == IF i = 0 \/ p[i] = "/" THEN i ELSE LastSlash(p, i - 1)

RECURSIVE RStripSlash(_)
RStripSlash(p) ==
    IF Len(p) > 0 /\ p[Len(p)] = "/" THEN RStripSlash(SubSeq(p, 1, Len(p) - 1))
    ELSE p

DirName(p) ==
    LET i == LastSlash(p, Len(p))
        head == SubSeq(p, 1, i)
    IN IF head # <<>> /\ \E k \in 1..Len(head) : head[k] # "/"
       THEN RStripSlash(head) ELSE head


\* every ancestor directory of p, p included (what os.makedirs creates)
RECURSIVE Ancestors(_)
Ancestors(p) ==
    IF p = <<>> \/ p = <<"/">> THEN {p} \ {<<>>}
    ELSE {p} \cup Ancestors(DirName(p))

\* p is root itself or below it, by whole path components
WithinRoot(p, root) ==
    \/ p = root
    \/ StartsWith(p, IF root = <<"/">> THEN root ELSE root \o <<"/">>)

(***************************************************************************)
(* Finite maps (Python dicts, the filesystem).                             *)
(***************************************************************************)
EmptyMap == [k \in {} |-> <<>>]
Put(m, k, v) == [x \in (DOMAIN m) \cup {k} |-> IF x = k THEN v ELSE m[x]]
Pop(m, k) == [x \in (DOMAIN m) \ {k} |-> m[x]]
\* dict.get(k, default)
Get(m, k, default) == IF k \in DOMAIN m THEN m[k] ELSE default

\* Optional[...]: None is the empty sequence, a value v is <<v>>
None == <<>>
Some(v) == <<v>>

(***************************************************************************)
(* The values the requests and the backend stub draw from.                 *)
(***************************************************************************)
RootP == <<"/", "p">>
\* a sibling of RootP whose name begins with RootP's name
RootP2 == <<"/", "p", "2">>
DirQ == <<"/", "q">>

RelA == <<"a">>
RelNew == <<"n">>
RelSibling == <<".", ".", "/", "p", "2", "/", "x">>
RelOutside == <<".", ".", "/", "q", "/", "x">>
RelAbsolute == <<"/", "q", "/", "x">>

FileA == <<"/", "p", "/", "a">>
FileSibling == <<"/", "p", "2", "/", "x">>
FileOutside == <<"/", "q", "/", "x">>
OrigA == <<"h">>
OrigX == <<"s">>

TextPlain == <<"H">>
\* the backtick character
Tick == "tick"
Fence == <<Tick, Tick, Tick>>
TextFenced == Fence \o <<"p", "y", "\n", "G", "\n">> \o Fence
UserMsg == <<"m">>
\* a message with the characters JSON escapes
UserMsgEscaped == <<"q", "\"", "\\", "\n", "z">>

\* the symbolic links of the filesystem: /p/l is a link to the directory /q
LinkL == <<"/", "p", "/", "l">>
RelLink == <<"l", "/", "x">>
SymLinks == Put(EmptyMap, LinkL, DirQ)

\* the file a path names for open, os.path.isfile, os.makedirs and os.remove,
\* which follow the symbolic links on the way (os.path.realpath)
RECURSIVE RealPath(_)
RealPath(p) ==
    IF \E l \in DOMAIN SymLinks : WithinRoot(p, l)
    THEN LET l == CHOOSE l \in DOMAIN SymLinks : WithinRoot(p, l)
         IN RealPath(SymLinks[l] \o SubSeq(p, Len(l) + 1, Len(p)))
    ELSE p

\* a backend response, with the attributes generate_content inspects
Response(text, block_reason, candidates, finish_reason) ==
    [text |-> text, block_reason |-> block_reason,
     candidates |-> candidates, finish_reason |-> finish_reason]

RespPlain == Response(TextPlain, "", TRUE, "STOP")
RespFenced == Response(TextFenced, "", TRUE, "STOP")
RespBlocked == Response(<<>>, "SAFETY", FALSE, "")
RespAbnormal == Response(<<>>, "", TRUE, "MAX_TOKENS")
\* the ambiguous empty responses: no text, no block reason, normal finish
RespEmpty == Response(<<>>, "", TRUE, "STOP")
RespNoCandidates == Response(<<>>, "", FALSE, "")

Responses ==
    {RespPlain, RespFenced, RespBlocked, RespAbnormal, RespEmpty, RespNoCandidates}

\* what one call of model.generate_content does: raise, or return a response
BackendOutcomes ==
    {[raised |-> TRUE, response |-> RespEmpty]}
        \cup {[raised |-> FALSE, response |-> r] : r \in Responses}

\* the value of a slot's resp before any backend call
NoOutcome == [raised |-> FALSE, response |-> RespNoCandidates]

IsBlocked(out) ==
    ~out.raised /\ out.response.text = <<>> /\ out.response.block_reason # ""

IsAbnormalFinish(out) ==
    /\ ~out.raised
    /\ out.response.text = <<>>
    /\ out.response.block_reason = ""
    /\ out.response.candidates
    /\ out.response.finish_reason # "STOP"

IsAmbiguousEmpty(out) ==
    /\ ~out.raised
    /\ out.response.text = <<>>
    /\ out.response.block_reason = ""
    /\ ~(out.response.candidates /\ out.response.finish_reason # "STOP")


(***************************************************************************)
(* Helper functions of server.py.                                          *)
(***************************************************************************)
MAX_GENERATE_RETRIES == 3

\* a resolution without the containment test
_get_safe_path_unchecked(project_root, relative_path) ==
    IF project_root = <<>> \/ relative_path = <<>> THEN <<>>
    ELSE AbsPath(PathJoin(AbsPath(project_root), relative_path))

\* _get_safe_path: the absolute path, or None (the empty string; the callers
\* test "if not target")
_get_safe_path(project_root, relative_path) ==
    IF project_root = <<>> \/ relative_path = <<>> THEN <<>>
    ELSE LET abs_project_root == AbsPath(project_root)
             requested_path == AbsPath(PathJoin(abs_project_root, relative_path))
         IN IF ~StartsWith(requested_path, abs_project_root) THEN <<>>
            ELSE requested_path

\* a directory test that every path passes
IsDirUnchecked(ds, p) == TRUE

\* a handler that goes on without a project root
not_activated_ignored(project_root) == FALSE

\* the handlers' "if not project_root": no project root is set
not_activated(project_root) == project_root = <<>>

\* os.path.isfile / os.path.isdir / os.path.exists
IsFile(fs, p) == RealPath(p) \in DOMAIN fs
IsDir(ds, p) == RealPath(p) \in ds
\* read_file, when it succeeds
read_file(fs, filepath) == fs[RealPath(filepath)]
Exists(fs, ds, p) == IsFile(fs, p) \/ IsDir(ds, p)

\* generate_content's cleanup of a response text: markdown fences removed
cleaned_text(text) ==
    LET stripped == Strip(text)
        lines == Split(stripped, "\n")
    IN IF StartsWith(stripped, Fence) /\ EndsWith(stripped, Fence)
       THEN IF Len(lines) > 1
            THEN JoinWith(SubSeq(lines, 2, Len(lines) - 1), "\n")
            ELSE <<>>
       ELSE stripped

\* the two error strings generate_content returns
BlockedMessage(reason) ==
    <<"Error: Content generation blocked by API safety filters (Reason: ",
      reason, "). Please revise your prompt or instructions.">>
IncompleteMessage(reason) ==
    <<"Error: Content generation stopped unexpectedly (Reason: ", reason, ").">>

\* generate_content with a block signal treated like an ambiguous empty
\* response (retried)
generate_attempt_retrying_block(out) ==
    IF out.raised
    THEN [branch |-> "exception", returns |-> FALSE, value |-> None,
          sleeps |-> TRUE]
    ELSE IF out.response.text # <<>>
    THEN [branch |-> "text", returns |-> TRUE,
          value |-> Some(cleaned_text(out.response.text)), sleeps |-> FALSE]
    ELSE IF out.response.candidates /\ out.response.finish_reason # "STOP"
    THEN [branch |-> "incomplete", returns |-> TRUE,
          value |-> Some(IncompleteMessage(out.response.finish_reason)),
          sleeps |-> FALSE]
    ELSE [branch |-> "empty", returns |-> FALSE, value |-> None,
          sleeps |-> FALSE]

\* generate_content with an unexpected finish reason treated like an
\* ambiguous empty response (retried)
generate_attempt_retrying_incomplete(out) ==
    IF out.raised
    THEN [branch |-> "exception", returns |-> FALSE, value |-> None,
          sleeps |-> TRUE]
    ELSE IF out.response.text # <<>>
    THEN [branch |-> "text", returns |-> TRUE,
          value |-> Some(cleaned_text(out.response.text)), sleeps |-> FALSE]
    ELSE IF out.response.block_reason # ""
    THEN [branch |-> "blocked", returns |-> TRUE,
          value |-> Some(BlockedMessage(out.response.block_reason)),
          sleeps |-> FALSE]
    ELSE [branch |-> "empty", returns |-> FALSE, value |-> None,
          sleeps |-> FALSE]

\* one pass of generate_content's while loop on the backend's outcome:
\*   branch   - the branch of the loop body taken
\*   returns  - whether the function returns in this pass
\*   value    - what it returns (Optional[str])
\*   sleeps   - whether time.sleep(1) runs in this pass
generate_attempt(out) ==
    IF out.raised
    THEN [branch |-> "exception", returns |-> FALSE, value |-> None,
          sleeps |-> TRUE]
    ELSE IF out.response.text # <<>>
    THEN [branch |-> "text", returns |-> TRUE,
          value |-> Some(cleaned_text(out.response.text)), sleeps |-> FALSE]
    ELSE IF out.response.block_reason # ""
    THEN [branch |-> "blocked", returns |-> TRUE,
          value |-> Some(BlockedMessage(out.response.block_reason)),
          sleeps |-> FALSE]
    ELSE IF out.response.candidates /\ out.response.finish_reason # "STOP"
    THEN [branch |-> "incomplete", returns |-> TRUE,
          value |-> Some(IncompleteMessage(out.response.finish_reason)),
          sleeps |-> FALSE]
    ELSE [branch |-> "empty", returns |-> FALSE, value |-> None,
          sleeps |-> FALSE]

\* the loop condition off by one
retry_allowed_inclusive(retries) == retries <= MAX_GENERATE_RETRIES

\* the loop condition of generate_content
retry_allowed(retries) == retries < MAX_GENERATE_RETRIES

\* the path of a project root's sidecar file
SessionFilePath(project_root) == PathJoin(project_root, <<".llm_session">>)

(***************************************************************************)
(* json.dump and json.load, on the dicts the server saves: an object whose *)
(* values are strings and lists of strings.  The whitespace json.dump's    *)
(* indent adds, which json.load skips, is left out.                        *)
(***************************************************************************)
\* a dump that writes every character as it is
JsonEscapeCharRaw(c) == <<c>>

JsonEscapeChar(c) ==
    IF c = "\"" THEN <<"\\", "\"">>
    ELSE IF c = "\\" THEN <<"\\", "\\">>
    ELSE IF c = "\n" THEN <<"\\", "n">>
    ELSE <<c>>

RECURSIVE JsonEscape(_)
JsonEscape(s) ==
    IF s = <<>> THEN <<>> ELSE JsonEscapeChar(Head(s)) \o JsonEscape(Tail(s))

JsonString(s) == <<"\"">> \o JsonEscape(s) \o <<"\"">>

RECURSIVE JsonItems(_)
JsonItems(list) ==
    IF list = <<>> THEN <<>>
    ELSE IF Len(list) = 1 THEN JsonString(list[1])
    ELSE JsonString(list[1]) \o <<",">> \o JsonItems(Tail(list))

JsonList(list) == <<"[">> \o JsonItems(list) \o <<"]">>

\* json.dump of {'conversation_history': [...], 'project_root': '...'}
json_dump(session_data) ==
    <<"{">> \o JsonString(<<"conversation_history">>) \o <<":">>
        \o JsonList(session_data["conversation_history"]) \o <<",">>
        \o JsonString(<<"project_root">>) \o <<":">>
        \o JsonString(session_data["project_root"]) \o <<"}">>

\* a parse: whether it succeeded, the value, the position after it
JsonFail == [ok |-> FALSE, val |-> <<>>, next |-> 0]
JsonOk(val, next) == [ok |-> TRUE, val |-> val, next |-> next]

JsonUnescapeChar(c) == IF c = "n" THEN "\n" ELSE c

\* the characters of a string from position i up to its closing quote
RECURSIVE JsonScanString(_, _, _)
JsonScanString(t, i, acc) ==
    IF i > Len(t) THEN JsonFail
    ELSE IF t[i] = "\"" THEN JsonOk(acc, i + 1)
    ELSE IF t[i] = "\\"
    THEN IF i + 1 <= Len(t) /\ t[i + 1] \in {"\"", "\\", "n"}
         THEN JsonScanString(t, i + 2, Append(acc, JsonUnescapeChar(t[i + 1])))
         ELSE JsonFail
    ELSE IF t[i] = "\n" THEN JsonFail
    ELSE JsonScanString(t, i + 1, Append(acc, t[i]))

JsonParseString(t, i) ==
    IF i <= Len(t) /\ t[i] = "\"" THEN JsonScanString(t, i + 1, <<>>)
    ELSE JsonFail

\* the items of a list from position i, where an item is due
RECURSIVE JsonScanList(_, _, _)
JsonScanList(t, i, acc) ==
    LET e == JsonParseString(t, i)
    IN IF ~e.ok \/ e.next > Len(t) THEN JsonFail
       ELSE IF t[e.next] = "," THEN JsonScanList(t, e.next + 1, Append(acc, e.val))
       ELSE IF t[e.next] = "]" THEN JsonOk(Append(acc, e.val), e.next + 1)
       ELSE JsonFail

JsonParseList(t, i) ==
    IF i > Len(t) \/ t[i] # "[" THEN JsonFail
    ELSE IF i + 1 <= Len(t) /\ t[i + 1] = "]" THEN JsonOk(<<>>, i + 2)
    ELSE JsonScanList(t, i + 1, <<>>)

JsonParseValue(t, i) ==
    IF i <= Len(t) /\ t[i] = "[" THEN JsonParseList(t, i)
    ELSE JsonParseString(t, i)

\* the members of an object from position i, where a key is due
RECURSIVE JsonScanObject(_, _, _)
JsonScanObject(t, i, acc) ==
    LET k == JsonParseString(t, i)
    IN IF ~k.ok \/ Len(k.val) # 1 \/ k.next > Len(t) THEN JsonFail
       ELSE IF t[k.next] # ":" THEN JsonFail
       ELSE LET v == JsonParseValue(t, k.next + 1)
                acc2 == Put(acc, k.val[1], v.val)
            IN IF ~v.ok \/ v.next > Len(t) THEN JsonFail
               ELSE IF t[v.next] = "," THEN JsonScanObject(t, v.next + 1, acc2)
               ELSE IF t[v.next] = "}" THEN JsonOk(acc2, v.next + 1)
               ELSE JsonFail

JsonParseObject(t, i) ==
    IF i > Len(t) \/ t[i] # "{" THEN JsonFail
    ELSE IF i + 1 <= Len(t) /\ t[i + 1] = "}" THEN JsonOk(EmptyMap, i + 2)
    ELSE JsonScanObject(t, i + 1, EmptyMap)

\* a json.load that is content with a JSON value at the start of the text
json_load_prefix(t) ==
    LET is_dict == t # <<>> /\ t[1] = "{"
        r == IF is_dict THEN JsonParseObject(t, 1) ELSE JsonParseValue(t, 1)
    IN IF r.ok
       THEN [ok |-> TRUE, is_dict |-> is_dict, val |-> r.val]
       ELSE [ok |-> FALSE, is_dict |-> FALSE, val |-> <<>>]

\* json.load: raises (ok is FALSE) unless the whole text is one JSON value
json_load(t) ==
    LET is_dict == t # <<>> /\ t[1] = "{"
        r == IF is_dict THEN JsonParseObject(t, 1) ELSE JsonParseValue(t, 1)
    IN IF r.ok /\ r.next = Len(t) + 1
       THEN [ok |-> TRUE, is_dict |-> is_dict, val |-> r.val]
       ELSE [ok |-> FALSE, is_dict |-> FALSE, val |-> <<>>]

\* load_session_data: the stored dict, or {} when there is no usable sidecar
load_session_data(sc, project_root) ==
    IF project_root \in DOMAIN sc
    THEN LET data == json_load(sc[project_root])
         IN IF data.ok /\ data.is_dict THEN data.val ELSE EmptyMap
    ELSE EmptyMap

\* save_session_data: the sidecar files after the dict is dumped
save_session_data(sc, project_root, session_data) ==
    Put(sc, project_root,
        json_dump(Put(session_data, "project_root", project_root)))

\* the dict after_request and handle_set_project_root save
SessionDataToSave(history, project_root) ==
    Put(Put(EmptyMap, "conversation_history", history),
        "project_root", project_root)

\* a server that saves nothing after a request
after_request_skipping(sc, ds, sess) == sc

\* after_request: the sidecar files after the request's session is saved
after_request(sc, ds, sess) ==
    IF sess.project_root # <<>> /\ IsDir(ds, sess.project_root)
    THEN save_session_data(sc, sess.project_root,
             SessionDataToSave(sess.conversation_history, sess.project_root))
    ELSE sc

\* what after_request writes
AfterRequestIO(ds, sess) ==
    IF sess.project_root # <<>> /\ IsDir(ds, sess.project_root)
    THEN {SessionFilePath(sess.project_root)} ELSE {}


(***************************************************************************)
(* State.                                                                  *)
(***************************************************************************)
Sessions == {"s1", "s2"}
Slots == {"r1", "r2"}

\* a Flask session after before_request, before any project root is set
NewSession ==
    [project_root |-> <<>>,
     conversation_history |-> <<>>,
     pending_modifications |-> EmptyMap]

\* a request slot with no request.  In flight: pc is "gen" while
\* generate_content runs and "post" once it has returned; retries is its loop
\* counter, calls the number of backend calls made, resp what the latest
\* backend call did, slept whether the pass that made it slept, all_empty whether every pass so
\* far met an ambiguous empty response, value what generate_content returned.
\* After the response: pc is "done", status is the HTTP status, result names
\* the response body, io is the set of file paths the handler read or wrote,
\* temps the temporary files it created that still exist; for /modify, orig is
\* the file content it read, value the content it generated and prev the
\* pending content it replaced and diff the content of the diff file that
\* create_diff_file handed to it; for /chat, prompt is the list of the lines
\* of the prompt; for /set_project_root, orig is the text of the
\* sidecar it read (empty when there was none) and dropped is the set of
\* paths whose pending entries it discarded.  After a restart of the server,
\* lost is the set of paths whose pending entries were in the sessions the
\* restart ended, and ended the conversation history each bound root had in
\* them; the activation that follows keeps both.  While a request is in
\* flight, snap is the session it works on: the session lives in the signed
\* cookie of the client, each request gets the copy its cookie carried, and
\* the cookie of its response replaces the one the client holds.
Idle ==
    [pc |-> "idle", sid |-> "", op |-> "", arg |-> <<>>, target |-> <<>>,
     orig |-> <<>>, retries |-> 0, calls |-> 0, resp |-> NoOutcome,
     slept |-> FALSE,
     all_empty |-> TRUE, value |-> None, prev |-> None, status |-> 0,
     result |-> "", io |-> {}, temps |-> {}, dropped |-> {}, lost |-> {},
     ended |-> EmptyMap, diff |-> None, prompt |-> <<>>, snap |-> NewSession]

Free(r) == req[r].pc \in {"idle", "done"}

Done(s, op, arg, status, result, io, temps) ==
    [Idle EXCEPT !.pc = "done", !.sid = s, !.op = op, !.arg = arg,
                 !.status = status, !.result = result, !.io = io,
                 !.temps = temps]

InFlight(s, op, arg, target, orig, io) ==
    [Idle EXCEPT !.pc = "gen", !.sid = s, !.op = op, !.arg = arg,
                 !.target = target, !.orig = orig, !.io = io,
                 !.snap = session[s]]

InitFiles ==
    Put(Put(Put(EmptyMap, FileA, OrigA), FileSibling, OrigX), FileOutside, OrigX)

Init ==
    /\ files = InitFiles
    /\ dirs = {<<"/">>, RootP, RootP2, DirQ}
    /\ sidecar = EmptyMap
    /\ session = [s \in Sessions |-> NewSession]
    /\ req = [r \in Slots |-> Idle]

(***************************************************************************)
(* /set_project_root                                                       *)
(***************************************************************************)
\* an activation that keeps the pending modifications of the session
reset_pending_keeping(pm) == pm

\* handle_set_project_root: session['pending_modifications'] = {}
reset_pending(pm) == EmptyMap

handle_set_project_root(r, s, new_project_root) ==
    /\ Free(r)
    /\ LET abs_new_project_root == AbsPath(new_project_root)
           sess == session[s]
           loaded_data == load_session_data(sidecar, abs_new_project_root)
           history == Get(loaded_data, "conversation_history", <<>>)
           sess2 == [project_root |-> abs_new_project_root,
                     conversation_history |-> history,
                     pending_modifications |->
                         reset_pending(sess.pending_modifications)]
           saved == save_session_data(sidecar, abs_new_project_root,
                        SessionDataToSave(history, abs_new_project_root))
       IN IF ~IsDir(dirs, abs_new_project_root)
          THEN /\ session' = session
               /\ sidecar' = after_request(sidecar, dirs, sess)
               /\ req' = [req EXCEPT ![r] =
                      Done(s, "set_project_root", new_project_root, 400,
                           "invalid_directory", AfterRequestIO(dirs, sess), {})]
          ELSE /\ session' = [session EXCEPT ![s] = sess2]
               /\ sidecar' = after_request(saved, dirs, sess2)
               /\ req' = [req EXCEPT ![r] =
                      [Done(s, "set_project_root", new_project_root, 200,
                            "root_set",
                            {SessionFilePath(abs_new_project_root)}, {})
                       EXCEPT !.orig = Get(sidecar, abs_new_project_root, <<>>),
                              !.dropped =
                                  DOMAIN sess.pending_modifications
                                      \ DOMAIN sess2.pending_modifications,
                              !.lost = req[r].lost,
                              !.ended = req[r].ended]]
    /\ UNCHANGED <<files, dirs>>

(***************************************************************************)
(* generate_content: one backend call per step                             *)
(***************************************************************************)
backend_call(r, out) ==
    /\ req[r].pc = "gen"
    /\ retry_allowed(req[r].retries)
    /\ req[r].calls < MaxCalls
    /\ LET a == generate_attempt(out)
           retries2 == IF a.returns THEN req[r].retries ELSE req[r].retries + 1
           finished == a.returns \/ ~retry_allowed(retries2)
       IN req' = [req EXCEPT ![r] =
              [@ EXCEPT !.calls = @ + 1,
                        !.retries = retries2,
                        !.resp = out,
                        !.slept = a.sleeps,
                        !.all_empty = @ /\ IsAmbiguousEmpty(out),
                        !.value = a.value,
                        !.pc = IF finished THEN "post" ELSE "gen"]]
    /\ UNCHANGED <<files, dirs, sidecar, session>>


(***************************************************************************)
(* Effects shared by the handlers.                                         *)
(***************************************************************************)
\* write_file opening the file for writing and writing nothing
write_file_truncating(fs, filepath, content) ==
    Put(fs, RealPath(filepath), <<>>)

\* write_file, when it succeeds: the files and the directories afterwards
write_file(fs, filepath, content) == Put(fs, RealPath(filepath), content)
write_file_dirs(ds, filepath) ==
    ds \cup Ancestors(DirName(RealPath(filepath)))

\* a store that keeps an entry the path already has
store_pending_keeping_first(pm, relative_filepath, modified_content) ==
    IF relative_filepath \in DOMAIN pm THEN pm
    ELSE Put(pm, relative_filepath, modified_content)

\* a store that appends to the content the path already has pending
store_pending_appending(pm, relative_filepath, modified_content) ==
    Put(pm, relative_filepath,
        (IF relative_filepath \in DOMAIN pm THEN pm[relative_filepath]
         ELSE <<>>) \o modified_content)

\* session['pending_modifications'][relative_filepath] = modified_content
store_pending(pm, relative_filepath, modified_content) ==
    Put(pm, relative_filepath, modified_content)

\* a pop that removes nothing
pop_pending_noop(pm, relative_filepath) == pm

\* session['pending_modifications'].pop(relative_filepath, None)
pop_pending(pm, relative_filepath) == Pop(pm, relative_filepath)

\* no cleanup of the entry of a vanished file
drop_stale_keeping(pm, relative_filepath) == pm

\* handle_confirm_modify's cleanup of the entry of a vanished or invalid file
drop_stale(pm, relative_filepath) == pop_pending(pm, relative_filepath)

\* a confirm that forgets the entry although the write failed
after_write_failure_dropping(pm, relative_filepath) == Pop(pm, relative_filepath)

\* handle_confirm_modify's except IOError branch: the entry is not removed
after_write_failure(pm, relative_filepath) == pm

\* a cancel that treats "nothing pending" as not found
cancel_status_strict(found) == IF found THEN 200 ELSE 404

\* handle_cancel_modify's status, an entry found or not
cancel_status(found) == 200

\* a confirm that treats "nothing pending" as the benign no-op cancel does
NoPendingStatusAsCancel == cancel_status(FALSE)

\* handle_confirm_modify's status when nothing is pending for the path
NoPendingStatus == 404

\* how a write of a file ends: done; IOError before the file is touched; IOError
\* after the file was opened for writing (created or truncated)
WriteOutcomes == {"ok", "fail_open", "fail_write"}

\* how open_in_editor ends: launched; FileNotFoundError (whose handler raises
\* "from e" with e unbound, a NameError); another exception (a RuntimeError)
EditorOutcomes == {"ok", "not_found", "error"}

\* how create_diff_file ends: the diff utility ran (exit status 0 or 1); it
\* exited with a status above 1; subprocess.run raised; the first, the second or
\* the third temporary file could not be created; writing the input copies
\* raised
DiffOutcomes ==
    {"ok", "diff_error", "run_raises", "tmp_orig_fails", "tmp_mod_fails",
     "tmp_write_fails", "tmp_diff_fails"}

\* create_diff_file: whether it returns a path, returns None or lets the
\* NameError of its finally block escape, and the temporary files it leaves
create_diff_file(outcome) ==
    CASE outcome = "ok" ->
            [ends |-> "path", temps |-> {"diff"}]
      [] outcome \in {"diff_error", "run_raises", "tmp_diff_fails"} ->
            [ends |-> "none", temps |-> {}]
      [] outcome = "tmp_orig_fails" ->
            [ends |-> "name_error", temps |-> {}]
      [] outcome = "tmp_mod_fails" ->
            [ends |-> "name_error", temps |-> {"original"}]
      [] outcome = "tmp_write_fails" ->
            [ends |-> "name_error", temps |-> {"original", "modified"}]

\* the standard output of "diff -u original modified -L original_label -L
\* modified_label": nothing for equal contents; otherwise the two header lines
\* with the labels and one hunk, given here without its line numbers and
\* without the search for common lines (every line of the original removed,
\* every line of the modified text added)
RECURSIVE DiffLines(_, _)
DiffLines(lines, sign) ==
    IF lines = <<>> THEN <<>>
    ELSE <<sign>> \o Head(lines) \o <<"\n">> \o DiffLines(Tail(lines), sign)

diff_output(original_content, modified_content, original_label, modified_label) ==
    IF original_content = modified_content THEN <<>>
    ELSE <<"--- ">> \o original_label \o <<"\n", "+++ ">> \o modified_label
             \o <<"\n", "@@", "\n">>
             \o DiffLines(Split(original_content, "\n"), "-")
             \o DiffLines(Split(modified_content, "\n"), "+")

\* the labels handle_modify gives to create_diff_file
original_label(relative_filepath) == relative_filepath \o <<" (Original)">>
modified_label(relative_filepath) ==
    relative_filepath \o <<" (Proposed Changes)">>

(***************************************************************************)
(* /generate                                                               *)
(***************************************************************************)
handle_generate(r, s, relative_filename) ==
    /\ Free(r)
    /\ LET sess == session[s]
           project_root == sess.project_root
           target_filepath == _get_safe_path(project_root, relative_filename)
       IN IF not_activated(project_root)
          THEN /\ req' = [req EXCEPT ![r] =
                      Done(s, "generate", relative_filename, 400,
                           "not_activated", {}, {})]
               /\ UNCHANGED sidecar
          ELSE IF relative_filename = <<>> \/ target_filepath = <<>>
          THEN /\ req' = [req EXCEPT ![r] =
                      Done(s, "generate", relative_filename, 400,
                           "invalid_path", AfterRequestIO(dirs, sess), {})]
               /\ sidecar' = after_request(sidecar, dirs, sess)
          ELSE /\ req' = [req EXCEPT ![r] =
                      InFlight(s, "generate", relative_filename,
                               target_filepath, <<>>, {})]
               /\ UNCHANGED sidecar
    /\ UNCHANGED <<files, dirs, session>>

\* the handler after generate_content has returned
handle_generate_finish(r, wr, ed) ==
    /\ req[r].pc = "post"
    /\ req[r].op = "generate"
    /\ LET s == req[r].sid
           sess == req[r].snap
           target_filepath == req[r].target
           generated == req[r].value
           done(status, result, io) ==
               Done(s, "generate", req[r].arg, status, result,
                    io \cup AfterRequestIO(dirs', sess), {})
       IN /\ IF generated = None
             THEN /\ UNCHANGED <<files, dirs>>
                  /\ req' = [req EXCEPT ![r] = done(500, "llm_failed", {})]
             ELSE IF wr = "ok"
             THEN /\ files' = write_file(files, target_filepath, generated[1])
                  /\ dirs' = write_file_dirs(dirs, target_filepath)
                  /\ req' = [req EXCEPT ![r] =
                         IF ed = "ok"
                         THEN done(200, "generated", {target_filepath})
                         ELSE IF ed = "error"
                         THEN done(500, "save_or_open_failed", {target_filepath})
                         ELSE done(500, "internal_error", {target_filepath})]
             ELSE /\ files' = Pop(files, RealPath(target_filepath))
                  /\ UNCHANGED dirs
                  /\ req' = [req EXCEPT ![r] =
                         done(500, "save_or_open_failed", {target_filepath})]
          /\ sidecar' = after_request(sidecar, dirs', sess)
          /\ session' = [session EXCEPT ![s] = sess]

(***************************************************************************)
(* /modify                                                                 *)
(***************************************************************************)
handle_modify(r, s, relative_filepath) ==
    /\ Free(r)
    /\ LET sess == session[s]
           project_root == sess.project_root
           target_filepath_abs == _get_safe_path(project_root, relative_filepath)
       IN IF not_activated(project_root)
          THEN /\ req' = [req EXCEPT ![r] =
                      Done(s, "modify", relative_filepath, 400,
                           "not_activated", {}, {})]
               /\ UNCHANGED sidecar
          ELSE IF \/ relative_filepath = <<>>
                  \/ target_filepath_abs = <<>>
                  \/ ~IsFile(files, target_filepath_abs)
          THEN /\ req' = [req EXCEPT ![r] =
                      Done(s, "modify", relative_filepath, 400,
                           "invalid_or_missing_file",
                           AfterRequestIO(dirs, sess), {})]
               /\ sidecar' = after_request(sidecar, dirs, sess)
          ELSE /\ req' = [req EXCEPT ![r] =
                      InFlight(s, "modify", relative_filepath,
                               target_filepath_abs,
                               read_file(files, target_filepath_abs),
                               {target_filepath_abs})]
               /\ UNCHANGED sidecar
    /\ UNCHANGED <<files, dirs, session>>

\* the handler after generate_content has returned
handle_modify_finish(r, df, ed) ==
    /\ req[r].pc = "post"
    /\ req[r].op = "modify"
    /\ LET s == req[r].sid
           sess == req[r].snap
           relative_filepath == req[r].arg
           modified == req[r].value
           diff == create_diff_file(df)
           stored == store_pending(sess.pending_modifications,
                                   relative_filepath, modified[1])
           \* the diff file itself is removed by the handler's finally block
           left == diff.temps \ {"diff"}
           finish(status, result, pm) ==
               LET sess2 == [sess EXCEPT !.pending_modifications = pm]
               IN /\ session' = [session EXCEPT ![s] = sess2]
                  /\ sidecar' = after_request(sidecar, dirs, sess2)
                  /\ req' = [req EXCEPT ![r] =
                         [Done(s, "modify", relative_filepath, status, result,
                               req[r].io \cup AfterRequestIO(dirs, sess2),
                               left)
                          EXCEPT !.target = req[r].target,
                                 !.orig = req[r].orig,
                                 !.value = modified,
                                 !.diff =
                                     IF modified # None /\ diff.ends = "path"
                                     THEN Some(diff_output(
                                              req[r].orig, modified[1],
                                              original_label(relative_filepath),
                                              modified_label(relative_filepath)))
                                     ELSE None,
                                 !.prev = IF relative_filepath \in
                                              DOMAIN sess.pending_modifications
                                          THEN Some(sess.pending_modifications[
                                                        relative_filepath])
                                          ELSE None]]
       IN IF modified = None
          THEN finish(500, "llm_failed", sess.pending_modifications)
          ELSE IF diff.ends = "none"
          THEN finish(500, "diff_failed", sess.pending_modifications)
          ELSE IF diff.ends = "name_error"
          THEN finish(500, "internal_error", sess.pending_modifications)
          ELSE IF ed = "ok"
          THEN finish(200, "diff_opened", stored)
          ELSE IF ed = "error"
          THEN finish(500, "open_diff_failed",
                      pop_pending(stored, relative_filepath))
          ELSE finish(500, "internal_error", stored)
    /\ UNCHANGED <<files, dirs>>


(***************************************************************************)
(* /confirm_modify                                                         *)
(***************************************************************************)
\* the handler's work on the session sess that the request carries
confirm_modify(r, s, sess, relative_filepath, wr) ==
    /\ LET project_root == sess.project_root
           pending_modifications == sess.pending_modifications
           target_filepath_abs == _get_safe_path(project_root, relative_filepath)
           finish(status, result, pm, io) ==
               LET sess2 == [sess EXCEPT !.pending_modifications = pm]
               IN /\ session' = [session EXCEPT ![s] = sess2]
                  /\ sidecar' = after_request(sidecar, dirs', sess2)
                  /\ req' = [req EXCEPT ![r] =
                         Done(s, "confirm_modify", relative_filepath, status,
                              result, io \cup AfterRequestIO(dirs', sess2), {})]
       IN IF not_activated(project_root)
          THEN /\ UNCHANGED <<files, dirs>>
               /\ finish(400, "not_activated", pending_modifications, {})
          ELSE IF relative_filepath \notin DOMAIN pending_modifications
          THEN /\ UNCHANGED <<files, dirs>>
               /\ finish(NoPendingStatus, "no_pending_modification",
                         pending_modifications, {})
          ELSE IF \/ target_filepath_abs = <<>>
                  \/ ~IsFile(files, target_filepath_abs)
          THEN /\ UNCHANGED <<files, dirs>>
               /\ finish(404, "file_not_found_or_invalid",
                         drop_stale(pending_modifications, relative_filepath),
                         {})
          ELSE IF wr = "ok"
          THEN /\ files' = write_file(files, target_filepath_abs,
                                      pending_modifications[relative_filepath])
               /\ dirs' = write_file_dirs(dirs, target_filepath_abs)
               /\ finish(200, "changes_applied",
                         pop_pending(pending_modifications, relative_filepath),
                         {target_filepath_abs})
          ELSE /\ files' = IF wr = "fail_write"
                           THEN Put(files, RealPath(target_filepath_abs), <<>>)
                           ELSE files
               /\ UNCHANGED dirs
               /\ finish(500, "write_failed",
                         after_write_failure(pending_modifications,
                                             relative_filepath),
                         {target_filepath_abs})

\* the whole request in one step
handle_confirm_modify(r, s, relative_filepath, wr) ==
    /\ Free(r)
    /\ confirm_modify(r, s, session[s], relative_filepath, wr)

\* the same request in two steps, for clients that send requests without
\* waiting for the answers: the request arrives with the cookie the client
\* holds at that moment, the handler runs later
handle_confirm_modify_begin(r, s, relative_filepath) ==
    /\ Free(r)
    /\ req' = [req EXCEPT ![r] =
           [InFlight(s, "confirm_modify", relative_filepath, <<>>, <<>>, {})
            EXCEPT !.pc = "post"]]
    /\ UNCHANGED <<files, dirs, sidecar, session>>

handle_confirm_modify_finish(r, wr) ==
    /\ req[r].pc = "post"
    /\ req[r].op = "confirm_modify"
    /\ confirm_modify(r, req[r].sid, req[r].snap, req[r].arg, wr)

(***************************************************************************)
(* /cancel_modify                                                          *)
(***************************************************************************)
handle_cancel_modify(r, s, relative_filepath) ==
    /\ Free(r)
    /\ LET sess == session[s]
           pm == sess.pending_modifications
           sess2 == [sess EXCEPT !.pending_modifications =
                         pop_pending(pm, relative_filepath)]
       IN IF not_activated(sess.project_root)
          THEN /\ req' = [req EXCEPT ![r] =
                      Done(s, "cancel_modify", relative_filepath, 400,
                           "not_activated", {}, {})]
               /\ UNCHANGED <<session, sidecar>>
          ELSE IF relative_filepath \in DOMAIN pm
          THEN /\ session' = [session EXCEPT ![s] = sess2]
               /\ sidecar' = after_request(sidecar, dirs, sess2)
               /\ req' = [req EXCEPT ![r] =
                      Done(s, "cancel_modify", relative_filepath,
                           cancel_status(TRUE), "discarded",
                           AfterRequestIO(dirs, sess2), {})]
          ELSE /\ session' = session
               /\ sidecar' = after_request(sidecar, dirs, sess)
               /\ req' = [req EXCEPT ![r] =
                      Done(s, "cancel_modify", relative_filepath,
                           cancel_status(FALSE), "nothing_to_cancel",
                           AfterRequestIO(dirs, sess), {})]
    /\ UNCHANGED <<files, dirs>>

(***************************************************************************)
(* /get_file_content and /get_files                                        *)
(***************************************************************************)
handle_get_file_content(r, s, relative_filepath) ==
    /\ Free(r)
    /\ LET sess == session[s]
           project_root == sess.project_root
           target_filepath_abs == _get_safe_path(project_root, relative_filepath)
       IN IF not_activated(project_root)
          THEN /\ req' = [req EXCEPT ![r] =
                      Done(s, "get_file_content", relative_filepath, 400,
                           "not_activated", {}, {})]
               /\ UNCHANGED sidecar
          ELSE /\ sidecar' = after_request(sidecar, dirs, sess)
               /\ req' = [req EXCEPT ![r] =
                      IF \/ relative_filepath = <<>>
                         \/ target_filepath_abs = <<>>
                         \/ ~IsFile(files, target_filepath_abs)
                      THEN Done(s, "get_file_content", relative_filepath, 404,
                                "invalid_or_missing_file",
                                AfterRequestIO(dirs, sess), {})
                      ELSE [Done(s, "get_file_content", relative_filepath, 200,
                                 "content",
                                 {target_filepath_abs}
                                     \cup AfterRequestIO(dirs, sess), {})
                            EXCEPT !.value =
                                Some(read_file(files, target_filepath_abs))]]
    /\ UNCHANGED <<files, dirs, session>>

\* get_project_files walks the tree below the root
get_project_files(fs, root_path) ==
    {f \in DOMAIN fs : WithinRoot(f, AbsPath(root_path))}

handle_get_files(r, s) ==
    /\ Free(r)
    /\ LET sess == session[s]
       IN IF not_activated(sess.project_root)
          THEN /\ req' = [req EXCEPT ![r] =
                      Done(s, "get_files", <<>>, 400, "not_activated", {}, {})]
               /\ UNCHANGED sidecar
          ELSE /\ sidecar' = after_request(sidecar, dirs, sess)
               /\ req' = [req EXCEPT ![r] =
                      Done(s, "get_files", <<>>, 200, "files",
                           get_project_files(files, sess.project_root)
                               \cup AfterRequestIO(dirs, sess), {})]
    /\ UNCHANGED <<files, dirs, session>>

(***************************************************************************)
(* /chat                                                                   *)
(***************************************************************************)
\* handle_chat's limit on the exchanges (user + assistant) put into a prompt
MAX_HISTORY_TURNS == 10

\* a prompt with the whole history
limited_history_whole(conversation_history) == conversation_history

\* conversation_history[-(MAX_HISTORY_TURNS * 2):]
limited_history(conversation_history) ==
    IF Len(conversation_history) <= MAX_HISTORY_TURNS * 2
    THEN conversation_history
    ELSE SubSeq(conversation_history,
                Len(conversation_history) - MAX_HISTORY_TURNS * 2 + 1,
                Len(conversation_history))

\* the lines "User: ..." and "Assistant: ..." of the entries i, i + 1, ...
RECURSIVE HistoryLines(_, _)
HistoryLines(history, i) ==
    IF i > Len(history) THEN <<>>
    ELSE IF i + 1 <= Len(history)
    THEN <<(<<"User: ">> \o history[i]),
           (<<"Assistant: ">> \o history[i + 1])>>
             \o HistoryLines(history, i + 2)
    ELSE <<(<<"User: ">> \o history[i])>>

\* the lines of the prompt handle_chat builds (the project has no
\* .llm_instructions file)
chat_prompt(conversation_history, user_message) ==
    LET limited == limited_history(conversation_history)
    IN (IF limited # <<>>
        THEN <<(<<"--- Recent Conversation History ---">>)>>
                 \o HistoryLines(limited, 1)
                 \o <<(<<"--- End History ---", "\n">>)>>
        ELSE <<>>)
         \o <<(<<"--- Current User Message ---">>), user_message,
              (<<"--- End User Message ---">>),
              (<<"\n", "Task: Respond helpfully to the user's message, considering the instructions and conversation history.">>)>>

\* a history that holds the latest exchange only
record_turn_forgetting(conversation_history, user_message, response_text) ==
    <<user_message, response_text>>

\* handle_chat's two appends to the session's conversation history
record_turn(conversation_history, user_message, response_text) ==
    Append(Append(conversation_history, user_message), response_text)

handle_chat(r, s, user_message) ==
    /\ Free(r)
    /\ LET sess == session[s]
       IN IF not_activated(sess.project_root)
          THEN /\ req' = [req EXCEPT ![r] =
                      Done(s, "chat", user_message, 400, "not_activated",
                           {}, {})]
               /\ UNCHANGED sidecar
          ELSE IF user_message = <<>>
          THEN /\ req' = [req EXCEPT ![r] =
                      Done(s, "chat", user_message, 400, "missing_message",
                           AfterRequestIO(dirs, sess), {})]
               /\ sidecar' = after_request(sidecar, dirs, sess)
          ELSE /\ req' = [req EXCEPT ![r] =
                      [InFlight(s, "chat", user_message, <<>>, <<>>, {})
                       EXCEPT !.prompt =
                           chat_prompt(sess.conversation_history,
                                       user_message)]]
               /\ UNCHANGED sidecar
    /\ UNCHANGED <<files, dirs, session>>

\* the handler after generate_content has returned
handle_chat_finish(r) ==
    /\ req[r].pc = "post"
    /\ req[r].op = "chat"
    /\ LET s == req[r].sid
           sess == req[r].snap
           response_text == req[r].value
           sess2 == [sess EXCEPT !.conversation_history =
                         record_turn(@, req[r].arg, response_text[1])]
       IN IF response_text = None
          THEN /\ session' = [session EXCEPT ![s] = sess]
               /\ sidecar' = after_request(sidecar, dirs, sess)
               /\ req' = [req EXCEPT ![r] =
                      Done(s, "chat", req[r].arg, 500, "llm_failed",
                           AfterRequestIO(dirs, sess), {})]
          ELSE /\ session' = [session EXCEPT ![s] = sess2]
               /\ sidecar' = after_request(sidecar, dirs, sess2)
               /\ req' = [req EXCEPT ![r] =
                      Done(s, "chat", req[r].arg, 200, "response",
                           AfterRequestIO(dirs, sess2), {})]
    /\ UNCHANGED <<files, dirs>>

(***************************************************************************)
(* The environment: somebody else deletes a project file between requests. *)
(* The response of the last request is forgotten then, so that a "done"    *)
(* slot always shows the step that has just been taken.                    *)
(***************************************************************************)
external_delete(f) ==
    /\ \A r \in Slots : Free(r)
    /\ f \in DOMAIN files
    /\ \E s \in Sessions :
          /\ session[s].project_root # <<>>
          /\ WithinRoot(f, session[s].project_root)
    /\ files' = Pop(files, f)
    /\ req' = [r \in Slots |-> Idle]
    /\ UNCHANGED <<dirs, sidecar, session>>

(***************************************************************************)
(* The server process is restarted between requests.  Its secret key is    *)
(* drawn anew, so the session cookie of every client is void and the next  *)
(* request of a client starts a new session; the files stay.               *)
(***************************************************************************)
PendingPaths ==
    UNION {DOMAIN session[s].pending_modifications : s \in Sessions}

\* the conversation history of each root a session is bound to
BoundHistories ==
    [d \in {session[s].project_root : s \in Sessions} \ {<<>>} |->
        LET s == CHOOSE s \in Sessions : session[s].project_root = d
        IN session[s].conversation_history]

\* what a slot shows after a restart
Restarted == [Idle EXCEPT !.lost = PendingPaths, !.ended = BoundHistories]

\* a restart with an unchanged secret key: the session cookies stay valid
server_restart_keeping_sessions ==
    /\ \A r \in Slots : Free(r)
    /\ \E s \in Sessions : session[s] # NewSession
    /\ req' = [r \in Slots |-> Restarted]
    /\ UNCHANGED <<files, dirs, sidecar, session>>

server_restart ==
    /\ \A r \in Slots : Free(r)
    /\ \E s \in Sessions : session[s] # NewSession
    /\ session' = [s \in Sessions |-> NewSession]
    /\ req' = [r \in Slots |-> Restarted]
    /\ UNCHANGED <<files, dirs, sidecar>>

(***************************************************************************)
(* One client, one request at a time.                                      *)
(***************************************************************************)
RootInputs == {RootP, <<"/", "n", "o">>}
PathInputs == {RelA, RelOutside}
MessageInputs == {UserMsg}

Request(r, s, roots, paths, wrs) ==
    \/ \E root \in roots : handle_set_project_root(r, s, root)
    \/ \E p \in paths : handle_generate(r, s, p)
    \/ \E p \in paths : handle_modify(r, s, p)
    \/ \E p \in paths, wr \in wrs : handle_confirm_modify(r, s, p, wr)
    \/ \E p \in paths : handle_cancel_modify(r, s, p)
    \/ \E p \in paths : handle_get_file_content(r, s, p)
    \/ handle_get_files(r, s)
    \/ \E m \in MessageInputs :
          /\ Len(session[s].conversation_history) < MaxHistory
          /\ handle_chat(r, s, m)

Progress(r, outs, wrs, eds, dfs) ==
    \/ \E out \in outs : backend_call(r, out)
    \/ \E wr \in wrs, ed \in eds : handle_generate_finish(r, wr, ed)
    \/ \E df \in dfs, ed \in eds : handle_modify_finish(r, df, ed)
    \/ handle_chat_finish(r)

Next ==
    \/ Request("r1", "s1", RootInputs, PathInputs, WriteOutcomes)
    \/ Progress("r1", BackendOutcomes, WriteOutcomes, EditorOutcomes,
                DiffOutcomes)
    \/ \E f \in DOMAIN files : external_delete(f)

Spec == Init /\ [][Next]_vars

\* generate_content is straight-line code in one thread: a loop pass that is
\* possible is eventually made (the backend call returns or raises)
SpecLive ==
    Spec /\ WF_vars(\E out \in BackendOutcomes : backend_call("r1", out))

(***************************************************************************)
(* Path resolution: one client on root /p asking for paths inside the root,*)
(* in a sibling directory whose name begins with the root's name, in       *)
(* another directory, and by an absolute path; the backend answers or      *)
(* raises; no write and no tool fails.                                     *)
(***************************************************************************)
SandboxPaths == {RelA, RelSibling, RelOutside, RelAbsolute}
SandboxOutcomes ==
    {[raised |-> TRUE, response |-> RespEmpty],
     [raised |-> FALSE, response |-> RespPlain]}

SandboxNext ==
    \/ Request("r1", "s1", {RootP}, SandboxPaths, {"ok"})
    \/ Progress("r1", SandboxOutcomes, {"ok"}, {"ok"}, {"ok"})

SpecSandbox == Init /\ [][SandboxNext]_vars

(***************************************************************************)
(* Persistence: one client working on the roots /p and /p2, proposing and  *)
(* confirming a modification of /p/a and chatting, while the server is     *)
(* restarted now and then; the backend answers with a text, no write and no*)
(* tool fails.  No project has a sidecar at the start.                     *)
(***************************************************************************)
PersistRoots == {RootP, RootP2}
PersistMessages == {UserMsgEscaped}
PersistOutcomes ==
    {[raised |-> FALSE, response |-> RespPlain],
     [raised |-> FALSE, response |-> RespFenced]}

PersistNext ==
    \/ \E root \in PersistRoots : handle_set_project_root("r1", "s1", root)
    \/ handle_modify("r1", "s1", RelA)
    \/ handle_modify_finish("r1", "ok", "ok")
    \/ handle_confirm_modify("r1", "s1", RelA, "ok")
    \/ \E m \in PersistMessages :
          /\ Len(session["s1"].conversation_history) < MaxPersistHistory
          /\ handle_chat("r1", "s1", m)
    \/ \E out \in PersistOutcomes : backend_call("r1", out)
    \/ handle_chat_finish("r1")
    \/ server_restart

SpecPersist == Init /\ [][PersistNext]_vars

(***************************************************************************)
(* Conversation: one client working on the roots /p and /p2 with every     *)
(* request type, on the path a, and chatting; the backend answers with a   *)
(* text or blocks; no write and no tool fails.                             *)
(***************************************************************************)
ChatOutcomes ==
    {[raised |-> FALSE, response |-> RespPlain],
     [raised |-> FALSE, response |-> RespBlocked]}

ChatNext ==
    \/ \E root \in PersistRoots : handle_set_project_root("r1", "s1", root)
    \/ handle_generate("r1", "s1", RelA)
    \/ handle_modify("r1", "s1", RelA)
    \/ handle_confirm_modify("r1", "s1", RelA, "ok")
    \/ handle_cancel_modify("r1", "s1", RelA)
    \/ handle_get_file_content("r1", "s1", RelA)
    \/ handle_get_files("r1", "s1")
    \/ \E m \in MessageInputs :
          /\ Len(session["s1"].conversation_history) < MaxPersistHistory
          /\ handle_chat("r1", "s1", m)
    \/ Progress("r1", ChatOutcomes, {"ok"}, {"ok"}, {"ok"})

SpecChat == Init /\ [][ChatNext]_vars

(***************************************************************************)
(* A long conversation: one client on root /p chatting until its history   *)
(* is longer than what a prompt takes; the backend answers with a plain or *)
(* a fenced text.                                                          *)
(***************************************************************************)
WindowNext ==
    \/ handle_set_project_root("r1", "s1", RootP)
    \/ \E m \in MessageInputs :
          /\ Len(session["s1"].conversation_history) < MaxWindowHistory
          /\ handle_chat("r1", "s1", m)
    \/ \E out \in PersistOutcomes : backend_call("r1", out)
    \/ handle_chat_finish("r1")

SpecWindow == Init /\ [][WindowNext]_vars

(***************************************************************************)
(* One client that does not wait for answers: two requests of session s1   *)
(* can be in flight at once (the server runs each in its own thread).  The *)
(* client activates /p, proposes modifications of a, confirms them and     *)
(* generates a anew; write, diff and editor work.                          *)
(***************************************************************************)
ConcurrentNext ==
    \/ handle_set_project_root("r1", "s1", RootP)
    \/ \E r \in Slots : handle_modify(r, "s1", RelA)
    \/ \E r \in Slots : handle_confirm_modify_begin(r, "s1", RelA)
    \/ handle_generate("r2", "s1", RelA)
    \/ \E r \in Slots, out \in PersistOutcomes : backend_call(r, out)
    \/ \E r \in Slots : handle_modify_finish(r, "ok", "ok")
    \/ \E r \in Slots : handle_confirm_modify_finish(r, "ok")
    \/ handle_generate_finish("r2", "ok", "ok")
    \* a confirm that is answered before anything else happens
    \/ handle_confirm_modify("r2", "s1", RelA, "ok")

SpecConcurrent == Init /\ [][ConcurrentNext]_vars

(***************************************************************************)
(* Two clients on one project: the sessions s1 and s2 both activate /p,    *)
(* chat, list the files and read the file a, each waiting for its answers  *)
(* but not for the other's.                                                *)
(***************************************************************************)
SharedClient(r, s) ==
    \/ handle_set_project_root(r, s, RootP)
    \/ handle_get_files(r, s)
    \/ handle_get_file_content(r, s, RelA)
    \/ \E m \in MessageInputs :
          /\ Len(session[s].conversation_history) < MaxPersistHistory
          /\ handle_chat(r, s, m)
    \/ backend_call(r, [raised |-> FALSE, response |-> RespPlain])
    \/ handle_chat_finish(r)

SharedNext ==
    \/ SharedClient("r1", "s1")
    \/ SharedClient("r2", "s2")

SpecShared == Init /\ [][SharedNext]_vars

(***************************************************************************)
(* Sidecars left by something else: /p has no sidecar, or one that is      *)
(* empty, cut off, followed by extra data or a JSON list, or one with two  *)
(* stored turns.  One client activates /p and /p2 and chats; the server is *)
(* restarted now and then.                                                 *)
(***************************************************************************)
StoredHistory == <<(<<"x">>), (<<"y">>)>>
SidecarStored == json_dump(SessionDataToSave(StoredHistory, RootP))
SidecarEmptyFile == <<>>
SidecarCutOff == SubSeq(SidecarStored, 1, Len(SidecarStored) - 1)
SidecarExtraData == SidecarStored \o <<"}">>
SidecarList == JsonList(StoredHistory)
UnusableSidecars ==
    {SidecarEmptyFile, SidecarCutOff, SidecarExtraData, SidecarList}

InitSidecar ==
    /\ files = InitFiles
    /\ dirs = {<<"/">>, RootP, RootP2, DirQ}
    /\ sidecar \in {EmptyMap} \cup
           {Put(EmptyMap, RootP, t) : t \in UnusableSidecars \cup {SidecarStored}}
    /\ session = [s \in Sessions |-> NewSession]
    /\ req = [r \in Slots |-> Idle]

SidecarNext ==
    \/ \E root \in PersistRoots : handle_set_project_root("r1", "s1", root)
    \/ \E m \in MessageInputs :
          /\ Len(session["s1"].conversation_history) < MaxPersistHistory
          /\ handle_chat("r1", "s1", m)
    \/ \E out \in PersistOutcomes : backend_call("r1", out)
    \/ handle_chat_finish("r1")
    \/ server_restart

SpecSidecar == InitSidecar /\ [][SidecarNext]_vars

(***************************************************************************)
(* client.py, the older variant of the server: /new, /restore and /chat    *)
(* with its own load_session_data, save_session_data and after_request.    *)
(* Its sessions have a project root and a conversation history only.       *)
(***************************************************************************)
\* load_session_data of client.py: whatever json.load returns, or {} when
\* there is no file or json.load raises
client_load_session_data(sc, project_root) ==
    IF project_root \in DOMAIN sc
    THEN LET data == json_load(sc[project_root])
         IN IF data.ok THEN [is_dict |-> data.is_dict, val |-> data.val]
            ELSE [is_dict |-> TRUE, val |-> EmptyMap]
    ELSE [is_dict |-> TRUE, val |-> EmptyMap]

\* save_session_data of client.py: dumps the dict as it is given, and only
\* logs a failure to open the file
client_save_session_data(sc, ds, project_root, session_data) ==
    IF IsDir(ds, project_root)
    THEN Put(sc, project_root, json_dump(session_data))
    ELSE sc

\* after_request of client.py
client_after_request(sc, ds, sess) ==
    IF sess.project_root # <<>>
    THEN client_save_session_data(sc, ds, sess.project_root,
             SessionDataToSave(sess.conversation_history, sess.project_root))
    ELSE sc

client_finish(r, s, op, arg, status, result, sess2, sc) ==
    /\ session' = [session EXCEPT ![s] = sess2]
    /\ sidecar' = client_after_request(sc, dirs, sess2)
    /\ req' = [req EXCEPT ![r] = Done(s, op, arg, status, result, {}, {})]
    /\ UNCHANGED <<files, dirs>>

client_handle_new(r, s, project_root) ==
    /\ Free(r)
    /\ LET sess == session[s]
           sess2 == [sess EXCEPT !.project_root = project_root,
                                 !.conversation_history = <<>>]
       IN IF ~IsDir(dirs, project_root)
          THEN client_finish(r, s, "new", project_root, 400,
                             "invalid_project_root", sess, sidecar)
          ELSE client_finish(r, s, "new", project_root, 200, "new_session",
                   sess2,
                   client_save_session_data(sidecar, dirs, project_root,
                       SessionDataToSave(<<>>, project_root)))

\* session['project_root'] = loaded_session_data.get('project_root')
client_restored_root(project_root, loaded) ==
    Get(loaded, "project_root", <<>>)

client_handle_restore(r, s, project_root) ==
    /\ Free(r)
    /\ LET sess == session[s]
           loaded_session_data == client_load_session_data(sidecar, project_root)
           loaded == loaded_session_data.val
           sess2 == [sess EXCEPT
                        !.project_root =
                            client_restored_root(project_root, loaded),
                        !.conversation_history =
                            Get(loaded, "conversation_history", <<>>)]
       IN IF ~IsDir(dirs, project_root)
          THEN client_finish(r, s, "restore", project_root, 400,
                             "invalid_project_root", sess, sidecar)
          ELSE IF DOMAIN loaded = {}
          THEN client_finish(r, s, "restore", project_root, 404,
                             "no_session_data", sess, sidecar)
          ELSE IF ~loaded_session_data.is_dict
          \* a list has no get: the handler raises and Flask answers 500
          THEN client_finish(r, s, "restore", project_root, 500,
                             "internal_error", sess, sidecar)
          ELSE client_finish(r, s, "restore", project_root, 200,
                             "session_restored", sess2, sidecar)

\* the two lines /chat of client.py appends to the history
client_record_turn(conversation_history, message, response_text) ==
    Append(Append(conversation_history, <<"User: ">> \o message),
           <<"LLM: ">> \o response_text)

\* response_text is what generate_content returned
client_handle_chat(r, s, message, response_text) ==
    /\ Free(r)
    /\ LET sess == session[s]
           history == client_record_turn(sess.conversation_history, message,
                                         response_text[1])
           sess2 == [sess EXCEPT !.conversation_history = history]
       IN IF sess.project_root = <<>>
          THEN client_finish(r, s, "chat", message, 400, "not_activated",
                             sess, sidecar)
          ELSE IF response_text = None \/ response_text[1] = <<>>
          THEN client_finish(r, s, "chat", message, 500, "llm_failed",
                             sess, sidecar)
          ELSE client_finish(r, s, "chat", message, 200, "response", sess2,
                   client_save_session_data(sidecar, dirs, sess.project_root,
                       SessionDataToSave(history, sess.project_root)))

(***************************************************************************)
(* A client of client.py working on /p and /p2.  /p2 has no sidecar, or    *)
(* it is a copy of the project /p with the sidecar /p had (two stored      *)
(* turns), or its sidecar is an empty file or a JSON list.                 *)
(***************************************************************************)
ClientRoots == {RootP, RootP2, <<"/", "n", "o">>}

InitClient ==
    /\ files = InitFiles
    /\ dirs = {<<"/">>, RootP, RootP2, DirQ}
    /\ sidecar \in {EmptyMap} \cup
           {Put(EmptyMap, RootP2, t) :
               t \in {SidecarStored, SidecarEmptyFile, SidecarList}}
    /\ session = [s \in Sessions |-> NewSession]
    /\ req = [r \in Slots |-> Idle]

ClientNext ==
    \/ \E root \in ClientRoots : client_handle_new("r1", "s1", root)
    \/ \E root \in ClientRoots : client_handle_restore("r1", "s1", root)
    \/ \E m \in MessageInputs, response_text \in {None, Some(TextPlain)} :
          /\ Len(session["s1"].conversation_history) < MaxPersistHistory
          /\ client_handle_chat("r1", "s1", m, response_text)

SpecClient == InitClient /\ [][ClientNext]_vars

(***************************************************************************)
(* Symbolic links: one client on root /p asking for /p/a and for l/x, where*)
(* /p/l is a link to the directory /q outside the root; the backend answers*)
(* or raises; no write and no tool fails.                                  *)
(***************************************************************************)
LinkPaths == {RelA, RelLink}

LinkNext ==
    \/ Request("r1", "s1", {RootP}, LinkPaths, {"ok"})
    \/ Progress("r1", SandboxOutcomes, {"ok"}, {"ok"}, {"ok"})

SpecLink == Init /\ [][LinkNext]_vars

(***************************************************************************)
(* _get_safe_path as a function: a handler of a session bound to /p or /p2 *)
(* resolves one path, relative (segments a, d, p, p2 and ..) or absolute.  *)
(***************************************************************************)
ResolveSegments == {<<"a">>, <<"d">>, <<"p">>, <<"p", "2">>, <<".", ".">>}
ResolveRelative ==
    {JoinWith(l, "/") :
        l \in UNION {[1..n -> ResolveSegments] : n \in 1..MaxSegments}}
ResolvePaths == ResolveRelative \cup {<<"/">> \o p : p \in ResolveRelative}

InitResolve ==
    /\ files = InitFiles
    /\ dirs = {<<"/">>, RootP, RootP2, DirQ}
    /\ sidecar = EmptyMap
    /\ \E root \in PersistRoots :
          session = [s \in Sessions |->
                        IF s = "s1" THEN [NewSession EXCEPT !.project_root = root]
                        ELSE NewSession]
    /\ \E p \in ResolvePaths :
          req = [r \in Slots |->
                    IF r = "r1"
                    THEN [Idle EXCEPT !.sid = "s1", !.op = "resolve", !.arg = p]
                    ELSE Idle]

\* the handler calls _get_safe_path(project_root, relative_path)
resolve(r) ==
    /\ req[r].pc = "idle"
    /\ req[r].op = "resolve"
    /\ req' = [req EXCEPT ![r] =
           [@ EXCEPT !.pc = "done",
                     !.target =
                         _get_safe_path(session[req[r].sid].project_root,
                                        req[r].arg)]]
    /\ UNCHANGED <<files, dirs, sidecar, session>>

ResolveNext == resolve("r1")

SpecResolve == InitResolve /\ [][ResolveNext]_vars

(***************************************************************************)
(* generate_content's cleanup as a function: the text of a backend answer, *)
(* made of fences, letters, newlines and blanks, is cleaned, and the result*)
(* is cleaned once more.                                                   *)
(***************************************************************************)
RECURSIVE Concat(_)
Concat(pieces) ==
    IF pieces = <<>> THEN <<>> ELSE Head(pieces) \o Concat(Tail(pieces))

SanitizePieces == {Fence, <<"x">>, <<"\n">>, <<" ">>}
SanitizeTexts ==
    {Concat(l) : l \in UNION {[1..n -> SanitizePieces] : n \in 1..MaxTextLen}}

InitSanitize ==
    /\ files = InitFiles
    /\ dirs = {<<"/">>, RootP, RootP2, DirQ}
    /\ sidecar = EmptyMap
    /\ session = [s \in Sessions |-> NewSession]
    /\ \E t \in SanitizeTexts :
          req = [r \in Slots |->
                    IF r = "r1" THEN [Idle EXCEPT !.op = "sanitize", !.arg = t]
                    ELSE Idle]

\* generate_content cleans response.text; value is the result
sanitize(r) ==
    /\ req[r].pc = "idle"
    /\ req[r].op = "sanitize"
    /\ req' = [req EXCEPT ![r] =
           [@ EXCEPT !.pc = "post", !.value = Some(cleaned_text(req[r].arg))]]
    /\ UNCHANGED <<files, dirs, sidecar, session>>

\* the result comes back as a response.text and is cleaned again; orig is
\* the second result
sanitize_again(r) ==
    /\ req[r].pc = "post"
    /\ req[r].op = "sanitize"
    /\ req' = [req EXCEPT ![r] =
           [@ EXCEPT !.pc = "done", !.orig = cleaned_text(req[r].value[1])]]
    /\ UNCHANGED <<files, dirs, sidecar, session>>

SanitizeNext == sanitize("r1") \/ sanitize_again("r1")

SpecSanitize == InitSanitize /\ [][SanitizeNext]_vars

(***************************************************************************)
(* Steps, as seen in a pair of states.                                     *)
(***************************************************************************)
\* slot r completes the atomic handler op for path p in this step
Handles(r, op, p) ==
    /\ Free(r)
    /\ req'[r].pc = "done"
    /\ req'[r].op = op
    /\ req'[r].arg = p

\* slot r completes the handler op, which had called generate_content
Finishes(r, op) ==
    /\ req[r].pc = "post"
    /\ req[r].op = op
    /\ req'[r].pc = "done"

\* the response slot r shows is that of handler op for path p
Answered(r, op, p) ==
    /\ req[r].pc = "done"
    /\ req[r].op = op
    /\ req[r].arg = p

Pending(s) == session[s].pending_modifications
Root(s) == session[s].project_root
\* the file a relative path names under a root
FileOf(root, p) == AbsPath(PathJoin(root, p))

FileOps == {"generate", "modify", "confirm_modify", "get_file_content"}


(***************************************************************************)
(* C1.  Every file path a file operation (generate, modify, confirm_modify,*)
(* get_file_content) reads or writes is the active project root or below   *)
(* it by whole path components, and no file outside the root changes: with *)
(* root /p, nothing is read or written under the sibling /p2.              *)
(***************************************************************************)
C1_SandboxContainment ==
    /\ \A r \in Slots :
          req[r].op \in FileOps =>
             \A f \in req[r].io : WithinRoot(f, Root(req[r].sid))
    /\ \A f \in DOMAIN InitFiles :
          ~WithinRoot(f, RootP) => (f \in DOMAIN files /\ files[f] = InitFiles[f])

(***************************************************************************)
(* C2.  A successful /modify of path p stores exactly the generated content*)
(* as pending_modifications[p] and changes no file; a successful           *)
(* /confirm_modify of p writes exactly the pending content to the file of p*)
(* (and to no other file) and leaves no pending entry for p.               *)
(***************************************************************************)
C2_ProposeThenConfirm ==
    [][\A r \in Slots :
         LET s == req'[r].sid
             p == req'[r].arg
         IN /\ (Finishes(r, "modify") /\ req'[r].status = 200) =>
                  /\ files' = files
                  /\ p \in DOMAIN session'[s].pending_modifications
                  /\ session'[s].pending_modifications[p] = req[r].value[1]
            /\ (Handles(r, "confirm_modify", p) /\ req'[r].status = 200) =>
                  /\ p \in DOMAIN Pending(s)
                  /\ WithinRoot(FileOf(Root(s), p), Root(s))
                  /\ files' = Put(files, FileOf(Root(s), p), Pending(s)[p])
                  /\ p \notin DOMAIN session'[s].pending_modifications]_vars

\* a confirm has written the sanitized text of a fenced backend answer
C2_Witness ==
    /\ Answered("r1", "confirm_modify", RelA)
    /\ req["r1"].status = 200
    /\ files[FileA] = <<"G">>
    /\ RelA \notin DOMAIN Pending("s1")

(***************************************************************************)
(* C3.  When the generation call of a /modify ends in a failure (blocked,  *)
(* abnormal finish, or retries exhausted) the request reports an error, the*)
(* pending modifications are as before (nothing is stored for the path) and*)
(* no file changes.                                                        *)
(***************************************************************************)
GenerationFailed(r) ==
    \/ req[r].value = None
    \/ IsBlocked(req[r].resp)
    \/ IsAbnormalFinish(req[r].resp)

C3_FailedGenerationStoresNothing ==
    [][\A r \in Slots :
         (Finishes(r, "modify") /\ GenerationFailed(r)) =>
            /\ req'[r].status >= 400
            /\ session'[req[r].sid].pending_modifications = Pending(req[r].sid)
            /\ files' = files]_vars

(***************************************************************************)
(* C4.  A successful /modify of a path that already has a pending entry    *)
(* replaces that entry and leaves the other entries alone; the confirm that*)
(* follows writes the second proposal's content, not the first's.          *)
(***************************************************************************)
C4_LastProposalWins ==
    [][\A r \in Slots :
         LET s == req'[r].sid
             p == req'[r].arg
         IN /\ (Finishes(r, "modify") /\ req'[r].status = 200) =>
                  session'[s].pending_modifications =
                      Put(Pending(s), p, req[r].value[1])
            /\ ( /\ Answered(r, "modify", p)
                 /\ req[r].status = 200
                 /\ req[r].prev # None
                 /\ Handles(r, "confirm_modify", p)
                 /\ req'[r].status = 200 ) =>
                  /\ files'[req[r].target] = req[r].value[1]
                  /\ req[r].prev # req[r].value =>
                        files'[req[r].target] # req[r].prev[1]]_vars

\* a second proposal (G) has replaced a first one (H)
C4_Witness ==
    /\ Answered("r1", "modify", RelA)
    /\ req["r1"].status = 200
    /\ req["r1"].prev = Some(<<"H">>)
    /\ req["r1"].value = Some(<<"G">>)
    /\ Pending("s1")[RelA] = <<"G">>

(***************************************************************************)
(* C5.  /cancel_modify of p right after a successful /modify of p succeeds,*)
(* changes no file (the file of p still holds what /modify read) and leaves*)
(* no pending entry for p; a /confirm_modify of p right after that cancel  *)
(* reports that nothing is pending.                                        *)
(***************************************************************************)
C5_ProposeThenCancel ==
    [][\A r \in Slots :
         LET s == req'[r].sid
             p == req'[r].arg
         IN /\ ( /\ Answered(r, "modify", p)
                 /\ req[r].status = 200
                 /\ Handles(r, "cancel_modify", p) ) =>
                  /\ req'[r].status = 200
                  /\ files' = files
                  /\ req[r].target \in DOMAIN files'
                  /\ files'[req[r].target] = req[r].orig
                  /\ p \notin DOMAIN session'[s].pending_modifications
            /\ ( /\ Answered(r, "cancel_modify", p)
                 /\ req[r].status = 200
                 /\ Handles(r, "confirm_modify", p) ) =>
                  /\ req'[r].status = 404
                  /\ req'[r].result = "no_pending_modification"]_vars

\* a cancel has discarded a proposal and the file still has its content
C5_Witness ==
    /\ Answered("r1", "cancel_modify", RelA)
    /\ req["r1"].result = "discarded"
    /\ RelA \notin DOMAIN Pending("s1")
    /\ files[FileA] = OrigA

(***************************************************************************)
(* C6.  /confirm_modify of p on an activated session with nothing pending  *)
(* for p answers 404 "no pending modification" and changes neither a file, *)
(* nor the session (pending modifications, conversation history), nor the  *)
(* content of the sidecar.                                                 *)
(***************************************************************************)
C6_ConfirmWithoutPending ==
    [][\A r \in Slots :
         LET s == req'[r].sid
             p == req'[r].arg
         IN ( /\ Handles(r, "confirm_modify", p)
              /\ Root(s) # <<>>
              /\ p \notin DOMAIN Pending(s) ) =>
               /\ req'[r].status = 404
               /\ req'[r].result = "no_pending_modification"
               /\ files' = files
               /\ dirs' = dirs
               /\ session' = session
               /\ sidecar' = sidecar]_vars

C6_Witness ==
    /\ Answered("r1", "confirm_modify", RelA)
    /\ req["r1"].result = "no_pending_modification"
    /\ Root("s1") = RootP
    /\ Len(session["s1"].conversation_history) > 0

C8_StaleTarget ==
    [][\A r \in Slots :
         LET s == req'[r].sid
             p == req'[r].arg
         IN /\ ( /\ Handles(r, "confirm_modify", p)
                 /\ Root(s) # <<>>
                 /\ p \in DOMAIN Pending(s)
                 /\ FileOf(Root(s), p) \notin DOMAIN files ) =>
                  /\ req'[r].status = 404
                  /\ req'[r].result = "file_not_found_or_invalid"
                  /\ session'[s] =
                       [session[s] EXCEPT !.pending_modifications = Pop(@, p)]
                  /\ files' = files
                  /\ dirs' = dirs
            /\ ( /\ Answered(r, "confirm_modify", p)
                 /\ req[r].result = "file_not_found_or_invalid"
                 /\ Handles(r, "confirm_modify", p) ) =>
                  req'[r].result = "no_pending_modification"]_vars

C8_Witness ==
    /\ Answered("r1", "confirm_modify", RelA)
    /\ req["r1"].result = "file_not_found_or_invalid"
    /\ FileA \notin DOMAIN files
    /\ RelA \notin DOMAIN Pending("s1")

(***************************************************************************)
(* C9.  One generate_content invocation makes at most 3 backend calls      *)
(* whatever the backend does; every call either ends it or uses up one of  *)
(* the 3 retries, and a running invocation eventually returns; when every  *)
(* call met an ambiguous empty response it has made exactly 3 calls and    *)
(* returns None (retries exhausted).                                       *)
(***************************************************************************)
C9_RetryBound ==
    /\ [](\A r \in Slots :
            /\ req[r].calls <= 3
            /\ req[r].pc = "gen" =>
                  (req[r].retries < 3 /\ req[r].calls = req[r].retries)
            /\ (req[r].pc = "post" /\ req[r].all_empty) =>
                  (req[r].calls = 3 /\ req[r].value = None))
    /\ [][\A r \in Slots :
            (req[r].pc = "gen" /\ req'[r] # req[r]) =>
               /\ req'[r].calls = req[r].calls + 1
               /\ \/ req'[r].pc = "post"
                  \/ req'[r].pc = "gen" /\ req'[r].retries = req[r].retries + 1]_vars
    /\ \A r \in Slots : (req[r].pc = "gen") ~> (req[r].pc = "post")

C9_Witness ==
    /\ req["r1"].pc = "post"
    /\ req["r1"].all_empty
    /\ req["r1"].calls = 3
    /\ req["r1"].value = None

(***************************************************************************)
(* C10.  A backend response with a block signal ends generate_content at   *)
(* once with the blocked message as its result: no call follows it, and    *)
(* when it is the first response exactly 1 call has been made.             *)
(***************************************************************************)
C10_NoRetryOnBlock ==
    /\ [](\A r \in Slots :
            (req[r].pc \in {"gen", "post"} /\ req[r].calls > 0
                 /\ IsBlocked(req[r].resp)) =>
               /\ req[r].pc = "post"
               /\ req[r].value =
                     Some(BlockedMessage(req[r].resp.response.block_reason))
               /\ req[r].calls = req[r].retries + 1
               /\ req[r].retries = 0 => req[r].calls = 1)
    /\ [][\A r \in Slots :
            req[r].pc = "post" =>
               \/ req'[r] = req[r]
               \/ req'[r].pc = "done"]_vars

C10_Witness ==
    /\ req["r1"].pc = "post"
    /\ IsBlocked(req["r1"].resp)
    /\ req["r1"].calls = 1

(***************************************************************************)
(* C11.  A backend response with no text, no block reason and a finish     *)
(* reason other than STOP ends generate_content at once with the           *)
(* "stopped unexpectedly" message naming the reason: it uses up no retry   *)
(* and no call follows it.  Among the responses the backend returns, only  *)
(* one with no text, no block reason and no finish reason other than STOP  *)
(* uses up a retry.                                                        *)
(***************************************************************************)
C11_IncompleteNotRetried ==
    /\ [](\A r \in Slots :
            (req[r].pc \in {"gen", "post"} /\ req[r].calls > 0
                 /\ IsAbnormalFinish(req[r].resp)) =>
               /\ req[r].pc = "post"
               /\ req[r].value =
                     Some(IncompleteMessage(req[r].resp.response.finish_reason)))
    /\ [][\A r \in Slots :
            /\ (req[r].pc = "gen" /\ req'[r].pc \in {"gen", "post"}
                   /\ req'[r] # req[r]) =>
                  LET out == req'[r].resp
                  IN /\ IsAbnormalFinish(out) =>
                           req'[r].retries = req[r].retries
                     /\ (~out.raised /\ req'[r].retries # req[r].retries) =>
                           /\ out.response.text = <<>>
                           /\ out.response.block_reason = ""
                           /\ out.response.finish_reason \in {"STOP", ""}
            /\ (req[r].pc = "post" /\ IsAbnormalFinish(req[r].resp)) =>
                  req'[r].pc \in {"post", "done"}]_vars

\* an unexpected finish met on the second call, after one retry was used up
C11_Witness ==
    /\ req["r1"].pc = "post"
    /\ IsAbnormalFinish(req["r1"].resp)
    /\ req["r1"].calls = 2
    /\ req["r1"].retries = 1
    /\ req["r1"].value = Some(IncompleteMessage("MAX_TOKENS"))

(***************************************************************************)
(* C12.  A successful /set_project_root leaves the session with no pending *)
(* modification, whatever was pending before and also when the root is the *)
(* one already active; a /confirm_modify right after it, for any path,     *)
(* answers 404 "no pending modification" and writes no file.               *)
(***************************************************************************)
C12_ActivationResetsPending ==
    [][\A r \in Slots :
         LET s == req'[r].sid
         IN /\ ( /\ Free(r)
                 /\ req'[r].pc = "done"
                 /\ req'[r].op = "set_project_root"
                 /\ req'[r].status = 200 ) =>
                  /\ session'[s].pending_modifications = EmptyMap
                  /\ session'[s].project_root = AbsPath(req'[r].arg)
            /\ ( /\ req[r].pc = "done"
                 /\ req[r].op = "set_project_root"
                 /\ req[r].status = 200
                 /\ req[r].sid = s
                 /\ Handles(r, "confirm_modify", req'[r].arg) ) =>
                  /\ req'[r].status = 404
                  /\ req'[r].result = "no_pending_modification"
                  /\ files' = files]_vars

\* the active root was activated again while a modification was pending
C12_Witness ==
    /\ Answered("r1", "set_project_root", RootP)
    /\ req["r1"].status = 200
    /\ RelA \in req["r1"].dropped
    /\ Root("s1") = RootP
    /\ Pending("s1") = EmptyMap

(***************************************************************************)
(* C13.  Every sidecar file is a JSON object with the two keys             *)
(* conversation_history and project_root (the directory it lies in) and    *)
(* nothing else: no pending modification is ever saved.  A restart of the  *)
(* server leaves every session new (no root, no history, nothing pending); *)
(* the activation that follows leaves nothing pending, and a               *)
(* /confirm_modify right after it for a path that was pending before the   *)
(* restart answers 404 "no pending modification" and writes no file.       *)
(***************************************************************************)
SidecarKeys == {"conversation_history", "project_root"}

C13_PendingNeverPersisted ==
    /\ [](\A d \in DOMAIN sidecar :
            LET data == json_load(sidecar[d])
            IN /\ data.ok
               /\ data.is_dict
               /\ DOMAIN data.val = SidecarKeys
               /\ data.val["project_root"] = d)
    /\ [][( /\ \A r \in Slots : Free(r) /\ req'[r].pc = "idle"
            /\ files' = files ) =>
             \A s \in Sessions : session'[s] = NewSession]_vars
    /\ [][\A r \in Slots :
            LET s == req'[r].sid
            IN /\ ( /\ req[r].pc = "idle"
                    /\ req'[r].pc = "done"
                    /\ req'[r].op = "set_project_root"
                    /\ req'[r].status = 200 ) =>
                     /\ session'[s].pending_modifications = EmptyMap
                     /\ req'[r].lost = req[r].lost
               /\ ( /\ req[r].pc = "done"
                    /\ req[r].op = "set_project_root"
                    /\ req[r].status = 200
                    /\ req[r].sid = s
                    /\ req'[r].arg \in req[r].lost
                    /\ Handles(r, "confirm_modify", req'[r].arg) ) =>
                     /\ req'[r].status = 404
                     /\ req'[r].result = "no_pending_modification"
                     /\ files' = files]_vars

\* the server has just been restarted while a modification was pending; the
\* sidecar of the root holds the two chat turns and the root
C13_Witness ==
    /\ req["r1"].pc = "idle"
    /\ RelA \in req["r1"].lost
    /\ session["s1"] = NewSession
    /\ RootP \in DOMAIN sidecar
    /\ Len(json_load(sidecar[RootP]).val["conversation_history"]) = 2
    /\ DOMAIN json_load(sidecar[RootP]).val = SidecarKeys

(***************************************************************************)
(* C14.  When the server is restarted while a session is bound to a root   *)
(* and the root is then activated in the new session, the new session has  *)
(* exactly the conversation history the ended session had (the same        *)
(* entries in the same order), the root as its project root and nothing    *)
(* pending.                                                                *)
(***************************************************************************)
C14_PersistenceRoundTrip ==
    [][\A r \in Slots :
         LET s == req'[r].sid
             d == AbsPath(req'[r].arg)
         IN ( /\ req[r].pc = "idle"
              /\ req'[r].pc = "done"
              /\ req'[r].op = "set_project_root"
              /\ req'[r].status = 200
              /\ d \in DOMAIN req[r].ended ) =>
               /\ session[s] = NewSession
               /\ session'[s].conversation_history = req[r].ended[d]
               /\ session'[s].project_root = d
               /\ session'[s].pending_modifications = EmptyMap]_vars

\* two chats, a restart, and the root activated again
C14_Witness ==
    /\ Answered("r1", "set_project_root", RootP)
    /\ req["r1"].status = 200
    /\ RootP \in DOMAIN req["r1"].ended
    /\ req["r1"].ended[RootP] =
          <<UserMsgEscaped, <<"H">>, UserMsgEscaped, <<"G">>>>
    /\ session["s1"].conversation_history = req["r1"].ended[RootP]

(***************************************************************************)
(* C15.  With one client, whenever its session is bound to a root, the     *)
(* sidecar of that root exists and is a JSON object whose project_root is  *)
(* the root and whose conversation_history is the session's conversation   *)
(* history: every request that changes the history or the binding has      *)
(* saved it by the time it is answered.                                    *)
(***************************************************************************)
C15_SidecarTracksSession ==
    \A s \in Sessions :
       Root(s) # <<>> =>
          /\ Root(s) \in DOMAIN sidecar
          /\ LET data == json_load(sidecar[Root(s)])
             IN /\ data.ok
                /\ data.is_dict
                /\ data.val["project_root"] = Root(s)
                /\ data.val["conversation_history"] =
                       session[s].conversation_history

\* a chat has been answered and its two turns are in the sidecar
C15_Witness ==
    /\ Answered("r1", "chat", UserMsg)
    /\ req["r1"].status = 200
    /\ Len(session["s1"].conversation_history) = 2
    /\ json_load(sidecar[RootP]).val["conversation_history"] =
           session["s1"].conversation_history
    /\ SessionFilePath(RootP) \in req["r1"].io

(***************************************************************************)
(* C16.  /set_project_root of an existing directory that has no sidecar, or*)
(* a sidecar that is empty, malformed JSON or JSON other than an object,   *)
(* answers 200, binds the session to the directory with an empty           *)
(* conversation history and nothing pending, and leaves the directory with *)
(* a sidecar that records the root and the empty history.                  *)
(***************************************************************************)
C16_UnusableSidecarTolerated ==
    [][\A r \in Slots :
         LET s == req'[r].sid
             d == AbsPath(req'[r].arg)
         IN ( /\ Handles(r, "set_project_root", req'[r].arg)
              /\ d \in dirs
              /\ (d \notin DOMAIN sidecar \/ sidecar[d] \in UnusableSidecars) ) =>
               /\ req'[r].status = 200
               /\ session'[s].project_root = d
               /\ session'[s].conversation_history = <<>>
               /\ session'[s].pending_modifications = EmptyMap
               /\ d \in DOMAIN sidecar'
               /\ sidecar'[d] = json_dump(SessionDataToSave(<<>>, d))]_vars

\* /p was activated over a sidecar with extra data after the JSON object
C16_Witness ==
    /\ Answered("r1", "set_project_root", RootP)
    /\ req["r1"].status = 200
    /\ req["r1"].orig = SidecarExtraData
    /\ Root("s1") = RootP
    /\ session["s1"].conversation_history = <<>>

(***************************************************************************)
(* C17.  /set_project_root of a path that is not an existing directory     *)
(* answers 400 and changes neither the session (project root, conversation *)
(* history, pending modifications) nor a project file; a /confirm_modify   *)
(* right after it of a path that is pending is not refused for a missing   *)
(* root or a missing pending entry.                                        *)
(***************************************************************************)
C17_InvalidRootRejected ==
    [][\A r \in Slots :
         LET s == req'[r].sid
         IN /\ ( /\ Handles(r, "set_project_root", req'[r].arg)
                 /\ AbsPath(req'[r].arg) \notin dirs ) =>
                  /\ req'[r].status = 400
                  /\ req'[r].result = "invalid_directory"
                  /\ session' = session
                  /\ files' = files
                  /\ dirs' = dirs
            /\ ( /\ req[r].pc = "done"
                 /\ req[r].op = "set_project_root"
                 /\ req[r].status = 400
                 /\ req[r].sid = s
                 /\ Root(s) # <<>>
                 /\ req'[r].arg \in DOMAIN Pending(s)
                 /\ Handles(r, "confirm_modify", req'[r].arg) ) =>
                  req'[r].result \in
                      {"changes_applied", "write_failed",
                       "file_not_found_or_invalid"}]_vars

\* an activation has failed in a session bound to /p with a pending entry
C17_Witness ==
    /\ Answered("r1", "set_project_root", <<"/", "n", "o">>)
    /\ req["r1"].status = 400
    /\ Root("s1") = RootP
    /\ RelA \in DOMAIN Pending("s1")

(***************************************************************************)
(* C18.  A /generate, /modify, /confirm_modify, /cancel_modify, /chat,     *)
(* /get_files or /get_file_content request of a session with no project    *)
(* root is answered at once with 400 "project root not set": no backend    *)
(* call is made, no file is read or written, the sidecars stay as they are *)
(* and the session is unchanged.                                           *)
(***************************************************************************)
NeedsRoot ==
    {"generate", "modify", "confirm_modify", "cancel_modify", "chat",
     "get_files", "get_file_content"}

C19_FailFast ==
    [][\A r \in Slots :
         LET s == req'[r].sid
             f == FileOf(Root(s), req'[r].arg)
         IN ( /\ Free(r)
              /\ req'[r] # req[r]
              /\ req'[r].pc # "idle"
              /\ Root(s) # <<>>
              /\ \/ /\ req'[r].op \in {"generate", "modify"}
                    /\ ~WithinRoot(f, Root(s))
                 \/ /\ req'[r].op = "modify"
                    /\ f \notin DOMAIN files ) =>
               /\ req'[r].pc = "done"
               /\ req'[r].status = 400
               /\ req'[r].calls = 0
               /\ session' = session
               /\ files' = files
               /\ dirs' = dirs]_vars

\* a /modify of a file that is gone was refused while the path was pending
C19_Witness ==
    /\ Answered("r1", "modify", RelA)
    /\ req["r1"].status = 400
    /\ req["r1"].result = "invalid_or_missing_file"
    /\ Root("s1") = RootP
    /\ FileA \notin DOMAIN files
    /\ RelA \in DOMAIN Pending("s1")

(***************************************************************************)
(* C20.  _get_safe_path(root, path) returns None for every relative path   *)
(* whose ".." segments lead out of the root and for every absolute path    *)
(* that lies outside the root, and for every relative path of plain        *)
(* segments (nested directories included) it returns root/path.            *)
(***************************************************************************)
HasDotDot(p) ==
    \E i \in 1..Len(Split(p, "/")) : Split(p, "/")[i] = <<".", ".">>

C20_Resolve ==
    \A r \in Slots :
       (req[r].pc = "done" /\ req[r].op = "resolve") =>
          LET root == Root(req[r].sid)
              p == req[r].arg
          IN /\ ((HasDotDot(p) \/ IsAbs(p)) /\ ~WithinRoot(FileOf(root, p), root))
                   => req[r].target = <<>>
             /\ (~HasDotDot(p) /\ ~IsAbs(p))
                   => req[r].target = root \o <<"/">> \o p

(***************************************************************************)
(* C21.  Path resolution follows symbolic links: every file a file         *)
(* operation reads or writes is, with the symbolic links on its path       *)
(* followed, the project root or below it, and no file outside the root    *)
(* changes.  With root /p and /p/l a link to /q, the path l/x is refused   *)
(* and /q/x is neither read nor written.                                   *)
(***************************************************************************)
C21_SymlinkContainment ==
    /\ \A r \in Slots :
          req[r].op \in FileOps =>
             \A f \in req[r].io : WithinRoot(RealPath(f), Root(req[r].sid))
    /\ \A r \in Slots :
          (Answered(r, "get_file_content", RelLink) /\ Root(req[r].sid) = RootP)
             => req[r].status >= 400
    /\ FileOutside \in DOMAIN files
    /\ files[FileOutside] = InitFiles[FileOutside]

(***************************************************************************)
(* C22.  /generate never changes the pending modifications.  When its      *)
(* generation call ends in a failure (blocked, abnormal finish, or retries *)
(* exhausted) the request reports an error and no file changes; when the   *)
(* request succeeds the target file holds exactly the sanitized text of the*)
(* backend's answer and no other file changes.                             *)
(***************************************************************************)
C22_GenerateNew ==
    [][\A r \in Slots :
         /\ (req'[r] # req[r] /\ req'[r].op = "generate") =>
               session'[req'[r].sid].pending_modifications =
                   Pending(req'[r].sid)
         /\ (Finishes(r, "generate") /\ GenerationFailed(r)) =>
               /\ req'[r].status >= 400
               /\ files' = files
         /\ ( /\ Finishes(r, "generate")
              /\ ~GenerationFailed(r)
              /\ req'[r].status = 200 ) =>
               files' = Put(files, req[r].target,
                            cleaned_text(req[r].resp.response.text))]_vars

(***************************************************************************)
(* C23.  A /confirm_modify of p that answers 200 has written the pending   *)
(* content of p to the file of p; one whose write fails answers with an    *)
(* error (500) and leaves the session as it was, so the entry of p is still*)
(* pending with the same content and the confirm can be repeated.          *)
(***************************************************************************)
C23_ConfirmWriteFailure ==
    [][\A r \in Slots :
         LET s == req'[r].sid
             p == req'[r].arg
             f == FileOf(Root(s), p)
         IN /\ (Handles(r, "confirm_modify", p) /\ req'[r].status = 200) =>
                  /\ p \in DOMAIN Pending(s)
                  /\ f \in DOMAIN files'
                  /\ files'[f] = Pending(s)[p]
            /\ ( /\ Handles(r, "confirm_modify", p)
                 /\ p \in DOMAIN Pending(s)
                 /\ f \in DOMAIN files
                 /\ (f \notin DOMAIN files' \/ files'[f] # Pending(s)[p]) ) =>
                  /\ req'[r].status >= 400
                  /\ req'[r].result = "write_failed"
                  /\ session' = session
            /\ (Handles(r, "confirm_modify", p)
                   /\ req'[r].result = "write_failed") =>
                  /\ req'[r].status = 500
                  /\ session' = session
                  /\ p \in DOMAIN session'[s].pending_modifications]_vars

\* a write that failed after the file was opened: the file is empty, the
\* request answered 500 and the proposal (G) is still pending
C23_Witness ==
    /\ Answered("r1", "confirm_modify", RelA)
    /\ req["r1"].status = 500
    /\ req["r1"].result = "write_failed"
    /\ files[FileA] = <<>>
    /\ RelA \in DOMAIN Pending("s1")
    /\ Pending("s1")[RelA] = <<"G">>

(***************************************************************************)
(* C24.  The cleanup of a backend text returns a text without any fence    *)
(* unchanged; of a text of several lines that begins with a fence and ends *)
(* with one it removes exactly the first and the last line; and cleaning a *)
(* result that holds no fence once more returns that result.               *)
(***************************************************************************)
FenceFree(t) == \A i \in 1..Len(t) : t[i] # Tick

C24_Sanitize ==
    \A r \in Slots :
       (req[r].op = "sanitize" /\ req[r].pc = "done") =>
          LET t == req[r].arg
              lines == Split(t, "\n")
              first == req[r].value[1]
              second == req[r].orig
          IN /\ FenceFree(t) => first = t
             /\ ( /\ StartsWith(t, Fence)
                  /\ EndsWith(t, Fence)
                  /\ Len(lines) > 1 ) =>
                   first = JoinWith(SubSeq(lines, 2, Len(lines) - 1), "\n")
             /\ FenceFree(first) => second = first

(***************************************************************************)
(* C25.  When the content /modify generated equals the content it read,    *)
(* create_diff_file does not hand a diff file to the handler as it does for*)
(* differing contents; when the two differ, the diff file it hands over is *)
(* not empty and holds both labels.                                        *)
(***************************************************************************)
Contains(t, sub) ==
    \E i \in 1..(Len(t) + 1) :
       i + Len(sub) - 1 <= Len(t) /\ SubSeq(t, i, i + Len(sub) - 1) = sub

C25_DiffIdentity ==
    \A r \in Slots :
       (req[r].pc = "done" /\ req[r].op = "modify" /\ req[r].value # None) =>
          /\ req[r].value[1] = req[r].orig => req[r].diff = None
          /\ (req[r].value[1] # req[r].orig /\ req[r].diff # None) =>
                /\ req[r].diff[1] # <<>>
                /\ Contains(req[r].diff[1], original_label(req[r].arg))
                /\ Contains(req[r].diff[1], modified_label(req[r].arg))

(***************************************************************************)
(* C26.  When a /modify request has returned, none of the temporary files  *)
(* made for its diff (the copy of the original, the copy of the modified   *)
(* text, the diff output) exists any more, however the diff and the editor *)
(* ended.                                                                  *)
(***************************************************************************)
C26_TempFilesReleased ==
    \A r \in Slots :
       (req[r].pc = "done" /\ req[r].op = "modify") => req[r].temps = {}

(***************************************************************************)
(* C27.  In every step that is not an activation (/set_project_root) of the*)
(* session, the conversation history the session had is a prefix of the one*)
(* it has afterwards, and the history grows only in the step in which a    *)
(* /chat request completes.                                                *)
(***************************************************************************)
IsPrefix(a, b) == Len(a) <= Len(b) /\ SubSeq(b, 1, Len(a)) = a

History(s) == session[s].conversation_history

C27_HistoryAppendOnly ==
    [][\A s \in Sessions :
         (\A r \in Slots :
             ~(req'[r] # req[r] /\ req'[r].op = "set_project_root")) =>
            /\ IsPrefix(History(s), session'[s].conversation_history)
            /\ session'[s].conversation_history # History(s) =>
                  \E r \in Slots : Finishes(r, "chat") /\ req[r].sid = s]_vars

\* a second exchange was appended to a first one; in between a modification
\* was proposed
C27_Witness ==
    /\ Answered("r1", "chat", UserMsg)
    /\ req["r1"].status = 200
    /\ History("s1") = <<UserMsg, TextPlain, UserMsg, TextPlain>>
    /\ RelA \in DOMAIN Pending("s1")

(***************************************************************************)
(* C28.  A /chat whose generation call succeeds appends the user message   *)
(* and then the reply to the conversation history; one whose generation    *)
(* call ends in a failure (blocked, abnormal finish, or retries exhausted) *)
(* reports an error and leaves the history as it was.  The length of the   *)
(* history stays even.                                                     *)
(***************************************************************************)
C28_ChatTurns ==
    [][\A r \in Slots :
         LET s == req[r].sid
         IN Finishes(r, "chat") =>
               /\ GenerationFailed(r) =>
                     /\ req'[r].status >= 400
                     /\ session'[s].conversation_history = History(s)
               /\ ~GenerationFailed(r) =>
                     session'[s].conversation_history =
                         History(s) \o <<req[r].arg,
                                         cleaned_text(req[r].resp.response.text)>>
               /\ Len(session'[s].conversation_history) % 2 = 0]_vars

(***************************************************************************)
(* C29.  The prompt of a /chat holds the last 20 entries of the stored     *)
(* conversation history (all of them when there are fewer), in their stored*)
(* order, and no more; the stored history is never shortened: a /chat that *)
(* succeeds stores the whole former history followed by the new exchange,  *)
(* also when the history is longer than 20 entries.                        *)
(***************************************************************************)
IsHistoryLine(line) ==
    StartsWith(line, <<"User: ">>) \/ StartsWith(line, <<"Assistant: ">>)

\* the history entries a prompt holds, in the prompt's order
PromptEntries(prompt) ==
    LET lines == SelectSeq(prompt, IsHistoryLine)
    IN [i \in 1..Len(lines) |-> Tail(lines[i])]

LastEntries(history, n) ==
    IF Len(history) <= n THEN history
    ELSE [i \in 1..n |-> history[Len(history) - n + i]]

C29_PromptWindow ==
    [][\A r \in Slots :
         LET s == req'[r].sid
         IN /\ (Free(r) /\ req'[r].pc = "gen" /\ req'[r].op = "chat") =>
                  /\ Len(PromptEntries(req'[r].prompt)) <= 20
                  /\ PromptEntries(req'[r].prompt) = LastEntries(History(s), 20)
            /\ (Finishes(r, "chat") /\ req'[r].status = 200) =>
                  /\ Len(session'[s].conversation_history) = Len(History(s)) + 2
                  /\ IsPrefix(History(s), session'[s].conversation_history)]_vars

\* a chat is in flight on a history of 22 entries: its prompt holds the 20
\* entries from the third on, and the history then grows to 24
C29_Witness ==
    /\ req["r1"].op = "chat"
    /\ req["r1"].pc = "post"
    /\ Len(History("s1")) = 22
    /\ History("s1")[2] = <<"G">>
    /\ History("s1")[4] = <<"H">>
    /\ Len(PromptEntries(req["r1"].prompt)) = 20
    /\ PromptEntries(req["r1"].prompt)[2] = <<"H">>

(***************************************************************************)
(* C30.  Whenever a pass of generate_content's loop is followed by another *)
(* backend call, the pass has slept (time.sleep) before that call, be it   *)
(* after an exception of the backend call or after an empty response       *)
(* without a block signal.                                                 *)
(***************************************************************************)
C30_DelayBetweenAttempts ==
    [][\A r \in Slots :
         ( /\ req[r].pc = "gen"
           /\ req'[r].pc = "gen"
           /\ req'[r].calls = req[r].calls + 1 ) => req'[r].slept]_vars

(***************************************************************************)
(* C32.  A /modify that answers with an error leaves the pending           *)
(* modifications of its session exactly as they were before the request,   *)
(* whatever failed (generation, the diff, the launch of the editor on the  *)
(* diff, the editor executable missing): an earlier entry for the path is  *)
(* still there and no new entry has been added.                            *)
(***************************************************************************)
C32_ProposeFailureKeepsPending ==
    [][\A r \in Slots :
         ( /\ req'[r] # req[r]
           /\ req'[r].pc = "done"
           /\ req'[r].op = "modify"
           /\ req'[r].status >= 400 ) =>
            session'[req'[r].sid].pending_modifications =
                Pending(req'[r].sid)]_vars

(***************************************************************************)
(* C33.  A /generate that answers with an error leaves the project files   *)
(* as they were before the request: a file that existed at the target path *)
(* still exists with its content and no new file has been created, also    *)
(* when the write or the launch of the editor failed.                      *)
(***************************************************************************)
C33_GenerateFailureKeepsFiles ==
    [][\A r \in Slots :
         ( /\ req'[r] # req[r]
           /\ req'[r].pc = "done"
           /\ req'[r].op = "generate"
           /\ req'[r].status >= 400 ) => files' = files]_vars

(***************************************************************************)
(* C37.  A request changes the project files only when it is a /generate   *)
(* or a /confirm_modify that succeeds: /modify, /cancel_modify, /chat,     *)
(* /set_project_root, /get_files and /get_file_content never create,       *)
(* modify or delete a file, and neither does a request that answers with   *)
(* an error.                                                               *)
(***************************************************************************)
C37_OnlyGenerateAndConfirmWrite ==
    [][\A r \in Slots :
         ( /\ req'[r] # req[r]
           /\ req'[r].pc = "done"
           /\ files' # files ) =>
            /\ req'[r].op \in {"generate", "confirm_modify"}
            /\ req'[r].status = 200]_vars

(***************************************************************************)
(* C31.  When two /modify requests of one session for the same path are    *)
(* in flight together and both succeed, the pending entry of the path is   *)
(* exactly the content one of them generated, that of the request that     *)
(* stores last: at the step at which a /modify answers 200 the entry of    *)
(* its path is its generated content, whole, and whenever both slots show  *)
(* a successful /modify of the path the entry is there and is the content  *)
(* of one of the two.                                                      *)
(***************************************************************************)
C31_ConcurrentProposals ==
    [][\A r \in Slots :
         (Finishes(r, "modify") /\ req'[r].status = 200) =>
            LET s == req[r].sid
                p == req[r].arg
                pending == session'[s].pending_modifications
            IN /\ p \in DOMAIN pending
               /\ pending[p] = req[r].value[1]
               /\ \A q \in Slots \ {r} :
                     ( /\ Answered(q, "modify", p)
                       /\ req[q].sid = s
                       /\ req[q].status = 200 ) =>
                        pending[p] \in {req[r].value[1], req[q].value[1]}]_vars

\* both requests started before either had stored (neither replaced an
\* entry, and the file is as it was), both succeeded with different content
C31_Witness ==
    /\ \A r \in Slots :
          /\ Answered(r, "modify", RelA)
          /\ req[r].sid = "s1"
          /\ req[r].status = 200
          /\ req[r].prev = None
    /\ req["r1"].value # req["r2"].value
    /\ files = InitFiles
    /\ RelA \in DOMAIN Pending("s1")
    /\ Pending("s1")[RelA] = req["r2"].value[1]

(***************************************************************************)
(* C34.  When a /modify of p stores new content while a /confirm_modify of *)
(* p of the same session is in flight that has read older pending content  *)
(* of p, the newer proposal is not lost: once the confirm has answered,    *)
(* the file of p holds the newer content or the newer content is still     *)
(* pending for p.                                                          *)
(***************************************************************************)
C34_NewerProposalKept ==
    [][\A r \in Slots :
         Finishes(r, "confirm_modify") =>
            LET s == req[r].sid
                p == req[r].arg
                f == FileOf(req[r].snap.project_root, p)
                pending == session'[s].pending_modifications
            IN \A q \in Slots \ {r} :
                  ( /\ Answered(q, "modify", p)
                    /\ req[q].sid = s
                    /\ req[q].status = 200
                    /\ p \in DOMAIN req[r].snap.pending_modifications
                    /\ p \in DOMAIN Pending(s)
                    /\ Pending(s)[p] = req[q].value[1] ) =>
                     \/ f \in DOMAIN files' /\ files'[f] = req[q].value[1]
                     \/ p \in DOMAIN pending /\ pending[p] = req[q].value[1]]_vars

(***************************************************************************)
(* C36.  A /generate of p that succeeds while a modification of p is       *)
(* pending is not undone by stale content: when p was proposed from an     *)
(* original that the /generate has since replaced, a /confirm_modify of p  *)
(* does not put content derived from that original in the place of the     *)
(* generated file.                                                         *)
(***************************************************************************)
C36_GeneratedFileNotReverted ==
    [][\A r, q \in Slots :
         LET s == req[q].sid
             p == req[q].arg
             f == FileOf(Root(s), p)
         IN ( /\ Answered(q, "modify", p)
              /\ req[q].status = 200
              /\ Answered(r, "generate", p)
              /\ req[r].sid = s
              /\ req[r].status = 200
              /\ f \in DOMAIN files
              /\ files[f] # req[q].orig
              /\ p \in DOMAIN Pending(s)
              /\ Pending(s)[p] = req[q].value[1]
              /\ Handles(r, "confirm_modify", p) ) =>
               files'[f] = files[f]]_vars

(***************************************************************************)
(* C35.  A /get_files or /get_file_content request never changes the       *)
(* content of a sidecar file, also when another session bound to the same  *)
(* root has recorded conversation turns since the requesting session last  *)
(* saved.                                                                  *)
(***************************************************************************)
C35_ReadsKeepSidecar ==
    [][\A r \in Slots :
         ( /\ Free(r)
           /\ req'[r] # req[r]
           /\ req'[r].pc = "done"
           /\ req'[r].op \in {"get_files", "get_file_content"} ) =>
            sidecar' = sidecar]_vars

(***************************************************************************)
(* C38.  Every key of a session's pending modifications is a relative path *)
(* that passed the sandbox check against the root the session has now and  *)
(* named an existing file when it was proposed: a /modify gets as far as   *)
(* generating only for a path that resolves inside the root to an existing *)
(* file, an entry appears or changes only when such a /modify stores it,   *)
(* with the target it resolved against the session's root, and an entry    *)
(* stays only while the root stays, so that a change of the root leaves no *)
(* key that was validated against the previous root.                       *)
(***************************************************************************)
C38_PendingKeysValidated ==
    [][\A s \in Sessions :
         LET pending == session'[s].pending_modifications
             root == session'[s].project_root
         IN /\ \A p \in DOMAIN pending :
                 /\ root # <<>>
                 /\ _get_safe_path(root, p) # <<>>
                 /\ \/ /\ p \in DOMAIN Pending(s)
                       /\ pending[p] = Pending(s)[p]
                       /\ root = Root(s)
                    \/ \E r \in Slots :
                          /\ Finishes(r, "modify")
                          /\ req[r].sid = s
                          /\ req[r].arg = p
                          /\ req[r].target = _get_safe_path(root, p)
            /\ \A r \in Slots :
                 ( /\ Free(r)
                   /\ req'[r].pc = "gen"
                   /\ req'[r].op = "modify"
                   /\ req'[r].sid = s ) =>
                    /\ req'[r].target = _get_safe_path(Root(s), req'[r].arg)
                    /\ req'[r].target # <<>>
                    /\ IsFile(files, req'[r].target)]_vars

\* after /p had been activated the session is on /p2, and its pending entry
\* is one a /modify stored there for the file /p2/a
C38_Witness ==
    /\ RootP \in DOMAIN sidecar
    /\ Root("s1") = RootP2
    /\ RelA \in DOMAIN Pending("s1")
    /\ Answered("r1", "modify", RelA)
    /\ req["r1"].status = 200
    /\ req["r1"].target = FileOf(RootP2, RelA)

====
